---------------------------- MODULE Spec2Model ----------------------------
(***************************************************************************)
(* A model of the usekuro mock runtime: the definition model and its       *)
(* validation (package schema), the loader, the dashboard's mock registry  *)
(* (package web), the TCP/WebSocket message pipeline, the HTTP handler and *)
(* the start/stop life cycle of the four protocol handlers (package        *)
(* runtime).                                                               *)
(*                                                                         *)
(* The module holds several specifications over one set of variables.      *)
(* Each specification drives one part of the program and leaves the        *)
(* variables of the other parts at their idle values:                      *)
(*   SpecValidate  schema.Validate applied to definitions of every shape   *)
(*   SpecDash      the dashboard registry: load, create, update, toggle    *)
(*   SpecPipe      TCP and WebSocket connections running the pipeline      *)
(*   SpecHTTP      HTTPHandler.Start and the requests it then serves       *)
(*   SpecLife      Start / Stop / accept loop of the four handlers         *)
(*   SpecSFTP      SFTPHandler: the backing tree, sessions, get and put    *)
(*   SpecRegistry  extensions.Registry and the runtimes built from it      *)
(*   SpecLoad      loader.LoadMockFromFile applied to files of every shape *)
(***************************************************************************)
EXTENDS Naturals, Sequences, FiniteSets, TLC

VARIABLES
    vDef,        \* SpecValidate: the definition handed to Validate
    vErr,        \* SpecValidate: what Validate returned ("pending" before the call)
    mocks,       \* SpecDash: Server.mocks, mock ID -> MockService
    lastStart,   \* SpecDash: the latest (handler kind, definition) passed to a Start
                 \* and how that Start ended
    mockStore,   \* SpecDash: the workspace directories and the mocks saved in them
    apiResp,     \* SpecDash: the last dashboard API request and its status
    pDef,        \* SpecPipe: the definition the handler was started with
    pKind,       \* SpecPipe: "tcp" or "ws"
    conns,       \* SpecPipe: connection -> its handling goroutine's state
    procUp,      \* FALSE once a panic or a fatal log ended the process
    hDef,        \* SpecHTTP: the definition passed to HTTPHandler.Start
    hSrv,        \* SpecHTTP: the handler: phase, router table, health flag
    hResp,       \* SpecHTTP: the last request served and its response
    lifeH,       \* SpecLife: handler kind -> listener / accept loop / returns
    defaultMux,  \* the patterns registered on http.DefaultServeMux
    sftpS,       \* SpecSFTP: the SFTP handler, the filesystem and its sessions
    regS,        \* SpecRegistry: an extension registry and the last render
    ldS,         \* SpecLoad: a file on disk and what LoadMockFromFile returned
    impS,        \* SpecImports: the .kurof sources, a started mock and its registry
    fnS,         \* SpecFuncs: a value, a fallback and what `default` gave for them
    lkS          \* SpecLocks: the dashboard's two mutexes and the requests in flight

vars == <<vDef, vErr, mocks, lastStart, mockStore, apiResp, pDef, pKind, conns, procUp,
          hDef, hSrv, hResp, lifeH, defaultMux, sftpS, regS, ldS, impS, fnS, lkS>>

valVars  == <<vDef, vErr>>
dashVars == <<mocks, lastStart, mockStore, apiResp>>
pipeVars == <<pDef, pKind, conns, procUp>>
httpVars == <<hDef, hSrv, hResp>>
lifeVars == <<lifeH, defaultMux>>
sftpVars == <<sftpS>>
regVars  == <<regS>>
loadVars == <<ldS>>
importVars == <<impS>>
funcVars == <<fnS>>
lockVars == <<lkS>>

(***************************************************************************)
(* Bounds of the model.                                                    *)
(***************************************************************************)
MaxItems == 2    \* longest routes / files list drawn for Validate
MaxConds == 2    \* longest onMessage.conditions list drawn for the pipeline
MaxRoutes == 2   \* longest routes list drawn for the HTTP handler
MaxReads == 2    \* most reads followed on one connection

(***************************************************************************)
(* Helpers.                                                                *)
(***************************************************************************)
SeqsUpTo(S, n) == UNION {[1..k -> S] : k \in 0..n}

\* A Go pointer: Nil, or a pointer to one value.
Nil == <<>>
Ptr(x) == <<x>>
Deref(p) == p[1]

\* A Go map[string]T: a function whose domain is the set of keys present.
EmptyMap == <<>>
HasKey(m, k) == k \in DOMAIN m

(***************************************************************************)
(* package schema: the definition model.                                   *)
(***************************************************************************)
Route(path, method, status, headers, body) ==
    [path |-> path, method |-> method, status |-> status,
     headers |-> headers, body |-> body]

OnMessageRule(if, respond) == [if |-> if, respond |-> respond]

OnMessage(match, conditions, else) ==
    [match |-> match, conditions |-> conditions, else |-> else]

FileEntry(path, content) == [path |-> path, content |-> content]

SFTPAuth(username, password) == [username |-> username, password |-> password]

Context(variables) == [variables |-> variables]

MockDefinition(protocol, port, routes, onMessage, files, sftpAuth, context, import) ==
    [protocol |-> protocol, port |-> port, routes |-> routes,
     onMessage |-> onMessage, files |-> files, sftpAuth |-> sftpAuth,
     context |-> context, import |-> import]

NoError == "nil"
ErrRoutes      == "'routes' must be defined for HTTP protocol"
ErrOnMessage   == "'onMessage' must be defined for TCP/WS protocol"
ErrFiles       == "'files' must be defined for SFTP protocol"
ErrSFTPAuth    == "'sftpAuth' must be defined for SFTP protocol"
ErrSFTPCreds   == "'sftpAuth' must include username and password"
ErrUnsupported == "unsupported protocol"

\* A faulty Validate: the sftp case forgets to look at the password.
ValidateNoPassword(def) ==
    CASE def.protocol = "http" ->
            IF Len(def.routes) = 0 THEN ErrRoutes ELSE NoError
      [] def.protocol \in {"tcp", "ws"} ->
            IF def.onMessage = Nil THEN ErrOnMessage ELSE NoError
      [] def.protocol = "sftp" ->
            IF Len(def.files) = 0 THEN ErrFiles
            ELSE IF def.sftpAuth = Nil THEN ErrSFTPAuth
            ELSE IF Deref(def.sftpAuth).username = "" THEN ErrSFTPCreds
            ELSE NoError
      [] OTHER -> ErrUnsupported

\* schema.Validate: the error returned for def (NoError for a nil error).
Validate(def) ==
    CASE def.protocol = "http" ->
            IF Len(def.routes) = 0 THEN ErrRoutes ELSE NoError
      [] def.protocol \in {"tcp", "ws"} ->
            IF def.onMessage = Nil THEN ErrOnMessage ELSE NoError
      [] def.protocol = "sftp" ->
            IF Len(def.files) = 0 THEN ErrFiles
            ELSE IF def.sftpAuth = Nil THEN ErrSFTPAuth
            ELSE IF Deref(def.sftpAuth).username = ""
                    \/ Deref(def.sftpAuth).password = "" THEN ErrSFTPCreds
            ELSE NoError
      [] OTHER -> ErrUnsupported


(***************************************************************************)
(* package template: template texts and what Render makes of them.         *)
(*                                                                         *)
(* A template text is modelled by its parse tree, one of:                  *)
(*   Lit(s)          plain text s                                          *)
(*   BadTpl          a text that does not parse, such as "{{"              *)
(*   Partial(s)      text s followed by an action that fails when run,     *)
(*                   such as  s{{ template "missing" }}                    *)
(*   Field(sc, n)    {{ .sc.n }}                                           *)
(*   EqField(sc,n,v) {{ eq .sc.n "v" }}                                    *)
(*   RootField(n)    {{ .n }}                                              *)
(*   EqRoot(n, v)    {{ eq .n "v" }}                                       *)
(***************************************************************************)
Tpl(k, a, b, c) == [k |-> k, a |-> a, b |-> b, c |-> c]
Lit(s)             == Tpl("lit", s, "", "")
BadTpl             == Tpl("bad", "", "", "")
Partial(s)         == Tpl("partial", s, "", "")
Field(sc, n)       == Tpl("field", sc, n, "")
EqField(sc, n, v)  == Tpl("eq", sc, n, v)
RootField(n)       == Tpl("rootfield", n, "", "")
EqRoot(n, v)       == Tpl("rooteq", n, v, "")
EmptyTpl           == Lit("")

\* template.MergeContext: the three keys are always present; a nil map
\* (modelled as Nil, which is also the empty map) becomes an empty map.
MergeContext(input, session, global) ==
    [input |-> input, session |-> session, context |-> global]

\* Runtime.Render: (out, err).  A parse error returns "" and the error; an
\* execution error returns the output produced before it and the error.
Render(tpl, ctx) ==
    CASE tpl.k = "lit"     -> [out |-> tpl.a, err |-> FALSE]
      [] tpl.k = "bad"     -> [out |-> "", err |-> TRUE]
      [] tpl.k = "partial" -> [out |-> tpl.a, err |-> TRUE]
      [] tpl.k = "field"   ->
            IF HasKey(ctx[tpl.a], tpl.b)
            THEN [out |-> ctx[tpl.a][tpl.b], err |-> FALSE]
            ELSE [out |-> "<no value>", err |-> FALSE]
      [] tpl.k = "eq"      ->
            IF HasKey(ctx[tpl.a], tpl.b)
            THEN [out |-> IF ctx[tpl.a][tpl.b] = tpl.c THEN "true" ELSE "false",
                  err |-> FALSE]
            \* a missing key is a nil value, which eq finds unequal
            ELSE [out |-> "false", err |-> FALSE]
      \* the root of the data holds the maps input, session and context
      [] tpl.k = "rootfield" ->
            IF HasKey(ctx, tpl.a)
            THEN [out |-> "map[]", err |-> FALSE]
            ELSE [out |-> "<no value>", err |-> FALSE]
      [] tpl.k = "rooteq" ->
            IF HasKey(ctx, tpl.a)
            THEN [out |-> "", err |-> TRUE]     \* a map and a string
            ELSE [out |-> "false", err |-> FALSE]

(***************************************************************************)
(* package extensions: .kurof sources and the registry built from them.    *)
(* What a source holds is the environment's; LoadKurof reads it.           *)
(***************************************************************************)
SrcGood    == "upper.kurof"      \* loads; a fragment that parses
SrcBroken  == "broken.kurof"     \* loads; its text does not parse
SrcMissing == "missing.kurof"    \* cannot be read
Sources    == {SrcGood, SrcBroken, SrcMissing}

\* extensions.LoadKurof: (content, err).
LoadKurof(src) ==
    CASE src = SrcGood   -> [content |-> [parses |-> TRUE],  err |-> FALSE]
      [] src = SrcBroken -> [content |-> [parses |-> FALSE], err |-> FALSE]
      [] OTHER           -> [content |-> [parses |-> FALSE], err |-> TRUE]

\* A loader that registers nothing once a source has failed to load.
loadExtensionsAllOrNothing(imports) ==
    IF \E i \in 1..Len(imports) : LoadKurof(imports[i]).err
    THEN EmptyMap
    ELSE [src \in {imports[i] : i \in 1..Len(imports)} |-> LoadKurof(src).content]

\* runtime.loadExtensions (and the same loop in HTTPHandler.Start): a source
\* that fails to load is skipped, the others are registered under their name.
loadExtensions(imports) ==
    [src \in {imports[i] : i \in {j \in 1..Len(imports) :
                                    ~LoadKurof(imports[j]).err}}
        |-> LoadKurof(src).content]

\* template.NewRuntime: fails when a registered fragment does not parse.
NewRuntimeFails(registry) == \E n \in DOMAIN registry : ~registry[n].parses

(***************************************************************************)
(* The regular expressions of onMessage.match.  What a pattern matches is  *)
(* the regexp library's; a pattern is given by its source text, whether it *)
(* compiles, its SubexpNames (index 0 first) and, per input,               *)
(* FindStringSubmatch's result (<<>> for nil).                             *)
(***************************************************************************)
Msgs == {"ping", "status", ""}

Pattern(src, compiles, names, find) ==
    [src |-> src, compiles |-> compiles, names |-> names, find |-> find]

\* FindStringSubmatch's result from the groups of a match: a group that took
\* no part in the match (Nil) gives the empty string.
SubmatchStrings(groups) ==
    [i \in 1..Len(groups) |-> IF groups[i] = Nil THEN "" ELSE Deref(groups[i])]

PatEmpty == Pattern("", TRUE, <<"">>, [m \in Msgs |-> <<m>>])
PatBad   == Pattern("(", FALSE, <<>>, [m \in Msgs |-> <<>>])
PatAny   == Pattern(".*", TRUE, <<"">>, [m \in Msgs |-> <<m>>])
\* (?P<cmd>\w+)
PatCmd   == Pattern("(?P<cmd>\\w+)", TRUE, <<"", "cmd">>,
                    [m \in Msgs |-> IF m = "" THEN <<>> ELSE <<m, m>>])
\* (?P<cmd>p\w+)?(?P<rest>\w*): per input the groups of the match, the
\* whole match first; cmd takes no part unless the input starts with p.
PatOptGroups ==
    [m \in Msgs |->
        CASE m = "ping"   -> <<Ptr("ping"), Ptr("ping"), Ptr("")>>
          [] m = "status" -> <<Ptr("status"), Nil, Ptr("status")>>
          [] OTHER        -> <<Ptr(""), Nil, Ptr("")>>]
PatOpt   == Pattern("(?P<cmd>p\\w+)?(?P<rest>\\w*)", TRUE, <<"", "cmd", "rest">>,
                    [m \in Msgs |-> SubmatchStrings(PatOptGroups[m])])

\* runtime.extractVars: the result map, or a panic (regexp.MustCompile).
extractVars(input, pattern) ==
    IF pattern.src = "" THEN [panic |-> FALSE, vars |-> [k \in {"msg"} |-> input]]
    ELSE IF ~pattern.compiles THEN [panic |-> TRUE, vars |-> EmptyMap]
    ELSE LET match == pattern.find[input]
             names == pattern.names
             \* Go index i is TLA+ index i + 1
             bound == {i \in 1..Len(names) :
                          i # 1 /\ names[i] # "" /\ i <= Len(match)}
         IN  [panic |-> FALSE,
              vars  |-> [k \in {names[i] : i \in bound} |->
                            match[CHOOSE i \in bound : names[i] = k]]]

(***************************************************************************)
(* HTTPHandler: paths, the router table built by Start, and ServeMux.      *)
(*                                                                         *)
(* A path is the sequence of its tokens: "/a/" is <<"/", "a", "/">>.  The  *)
(* token TplTok stands for the action {{ .context.base }}, BadTok for a    *)
(* "{{" that does not parse.                                               *)
(***************************************************************************)
TplTok == "{{ .context.base }}"
BadTok == "{{"
PathRoot    == <<"/">>
PathA       == <<"/", "a">>
PathASlash  == <<"/", "a", "/">>
PathAB      == <<"/", "a", "/", "b">>
PathB       == <<"/", "b">>
PathHealth  == <<"/", "health">>
PathHealthz == <<"/", "healthz">>
PathTpl     == <<TplTok>>
PathBadTpl  == <<"/", BadTok>>

\* strings.Contains(routePath, "{{")
HasTemplateSyntax(path) == \E i \in 1..Len(path) : path[i] \in {TplTok, BadTok}

RECURSIVE SubstPath(_, _)
SubstPath(path, val) ==
    IF path = <<>> THEN <<>>
    ELSE (IF Head(path) = TplTok THEN val ELSE <<Head(path)>>)
         \o SubstPath(Tail(path), val)

\* initialTpl.Render("route-path", routePath) against the context variables.
RenderPath(path, variables) ==
    IF \E i \in 1..Len(path) : path[i] = BadTok
    THEN [out |-> <<>>, err |-> TRUE]
    ELSE [out |-> SubstPath(path, IF HasKey(variables, "base")
                                  THEN variables["base"]
                                  ELSE <<"<no value>">>),
          err |-> FALSE]

\* The path a route is registered under (http.go, lines 114-127).
ResolvePath(path, variables) ==
    IF HasTemplateSyntax(path) /\ ~RenderPath(path, variables).err
    THEN RenderPath(path, variables).out
    ELSE path

\* A faulty HasCustomHealth: only /health counts as a custom health path.
HasCustomHealthOnlyHealth(def) ==
    \E i \in 1..Len(def.routes) : def.routes[i].path = PathHealth

\* hasCustomHealth (http.go, lines 46-52): decided on the routes' raw paths.
HasCustomHealth(def) ==
    \E i \in 1..Len(def.routes) : def.routes[i].path \in {PathHealth, PathHealthz}

HealthPatterns(def) ==
    IF HasCustomHealth(def) THEN {} ELSE {PathHealth, PathHealthz}

HealthHandler == [kind |-> "health", routes |-> <<>>]
RoutesHandler(routes) == [kind |-> "routes", routes |-> routes]

\* routeHandlers (http.go, lines 114-130): resolved path -> its routes, in
\* declaration order.
RouteGroups(def, variables) ==
    [p \in {ResolvePath(def.routes[i].path, variables) : i \in 1..Len(def.routes)}
        |-> SelectSeq(def.routes,
                      LAMBDA r : ResolvePath(r.path, variables) = p)]

\* mux.HandleFunc panics on an empty pattern and on a pattern registered twice.
RegistrationPanics(def, variables) ==
    \E p \in DOMAIN RouteGroups(def, variables) :
        p = <<>> \/ p \in HealthPatterns(def)

\* The router table Start builds when it does not panic.
BuildMux(def, variables) ==
    LET groups == RouteGroups(def, variables)
    IN  [p \in HealthPatterns(def) \cup DOMAIN groups |->
            IF p \in DOMAIN groups THEN RoutesHandler(groups[p]) ELSE HealthHandler]

IsPrefix(p, q) == Len(p) <= Len(q) /\ SubSeq(q, 1, Len(p)) = p

\* net/http ServeMux (Go 1.21): an exact match wins; else a redirect to
\* path + "/" when that is registered; else the longest registered pattern
\* ending in "/" that is a prefix of the path; else not found.  A pattern
\* that does not start with "/" names a host and matches no request here.
MuxMatch(mux, path) ==
    LET subtrees == {p \in DOMAIN mux :
                        /\ p # <<>> /\ p[1] = "/" /\ p[Len(p)] = "/"
                        /\ IsPrefix(p, path)}
    IN  IF path \in DOMAIN mux
        THEN [found |-> TRUE, pattern |-> path, redirect |-> FALSE]
        ELSE IF (path \o <<"/">>) \in DOMAIN mux
        THEN [found |-> FALSE, pattern |-> path \o <<"/">>, redirect |-> TRUE]
        ELSE IF subtrees # {}
        THEN [found |-> TRUE,
              pattern |-> CHOOSE p \in subtrees :
                              \A q \in subtrees : Len(q) <= Len(p),
              redirect |-> FALSE]
        ELSE [found |-> FALSE, pattern |-> <<>>, redirect |-> FALSE]

\* strings.EqualFold on method names.
Upper(m) ==
    CASE m = "get" -> "GET"
      [] m = "post" -> "POST"
      [] OTHER -> m
EqualFold(a, b) == Upper(a) = Upper(b)

\* A faulty FindRoute: with no matching method the first route answers.
FindRouteFallbackFirst(routes, method) ==
    LET hits == {i \in 1..Len(routes) :
                    EqualFold(routes[i].method, method) \/ routes[i].method = ""}
    IN  IF hits = {} THEN (IF Len(routes) > 0 THEN 1 ELSE 0)
        ELSE CHOOSE i \in hits : \A j \in hits : i <= j

\* The method fan-out of a path's handler (http.go, lines 147-156): the index
\* of the first route whose method equals the request's, case-insensitively,
\* or is empty; 0 when there is none.
FindRoute(routes, method) ==
    LET hits == {i \in 1..Len(routes) :
                    EqualFold(routes[i].method, method) \/ routes[i].method = ""}
    IN  IF hits = {} THEN 0 ELSE CHOOSE i \in hits : \A j \in hits : i <= j

\* The default health endpoint (http.go, lines 58-78).
HealthJSON == "{\"status\":\"healthy\",\"timestamp\":now}"
ServeHealth(method) ==
    CASE method = "OPTIONS" -> [status |-> 204, body |-> ""]
      [] method = "HEAD"    -> [status |-> 200, body |-> ""]
      [] OTHER              -> [status |-> 200, body |-> HealthJSON]

Response(method, path, json, status, by, pattern, route, headers, body) ==
    [method |-> method, path |-> path, json |-> json, status |-> status, by |-> by,
     pattern |-> pattern, route |-> route, headers |-> headers, body |-> body]

NoResp == Response("", <<>>, EmptyMap, 0, "none", <<>>, Nil, EmptyMap, "")

GenericErrorBody == "{\"error\": \"template rendering failed\"}"

\* A rendered header value, or the raw template text when rendering failed.
HeaderValue(tpl, ctx) ==
    IF Render(tpl, ctx).err THEN [raw |-> TRUE, text |-> tpl]
    ELSE [raw |-> FALSE, text |-> Lit(Render(tpl, ctx).out)]

\* w.WriteHeader panics on a status code that has not three digits; the
\* server recovers the panic and closes the connection with nothing written.
ValidStatus(code) == code >= 100 /\ code <= 999

\* The handler registered for one path (http.go, lines 145-222).
ServeRoutes(def, registry, routes, req, pattern) ==
    LET i == FindRoute(routes, req.method)
        inputVars ==
            IF req.method \in {"POST", "PUT", "PATCH"} THEN req.json ELSE EmptyMap
        contextVars ==
            IF def.context # Nil THEN Deref(def.context).variables ELSE EmptyMap
        ctx == MergeContext(inputVars, EmptyMap, contextVars)
    IN  IF i = 0
        THEN Response(req.method, req.path, req.json, 405, "methodNotAllowed", pattern,
                      Nil, EmptyMap, "Method not allowed")
        ELSE IF NewRuntimeFails(registry)
        THEN Response(req.method, req.path, req.json, 500, "runtimeError", pattern,
                      Nil, EmptyMap, "Internal server error")
        ELSE LET rt == routes[i]
                 body == Render(rt.body, ctx)
                 rendered == [k \in DOMAIN rt.headers |-> HeaderValue(rt.headers[k], ctx)]
             IN  IF ~ValidStatus(rt.status)
                 THEN Response(req.method, req.path, req.json, 0, "panic", pattern,
                               Ptr(rt), EmptyMap, "")
                 ELSE Response(req.method, req.path, req.json, rt.status, "route",
                               pattern, Ptr(rt),
                               IF body.err
                               THEN [k \in DOMAIN rendered \cup {"Content-Type"} |->
                                        IF k = "Content-Type"
                                        THEN [raw |-> FALSE, text |-> Lit("application/json")]
                                        ELSE rendered[k]]
                               ELSE rendered,
                               IF body.err THEN GenericErrorBody ELSE body.out)

\* One request through the router of a running handler.
ServeHTTP(def, srv, req) ==
    LET m == MuxMatch(srv.mux, req.path)
    IN  IF m.redirect
        THEN Response(req.method, req.path, req.json, 301, "redirect", m.pattern,
                      Nil, EmptyMap, "")
        ELSE IF ~m.found
        THEN Response(req.method, req.path, req.json, 404, "notFound", <<>>,
                      Nil, EmptyMap, "404 page not found")
        ELSE IF srv.mux[m.pattern].kind = "health"
        THEN Response(req.method, req.path, req.json, ServeHealth(req.method).status,
                      "health", m.pattern, Nil, EmptyMap,
                      ServeHealth(req.method).body)
        ELSE ServeRoutes(def, srv.registry, srv.mux[m.pattern].routes, req,
                         m.pattern)

Srv(phase, ret, health, mux, registry) ==
    [phase |-> phase, ret |-> ret, health |-> health, mux |-> mux,
     registry |-> registry]

IdleSrv == Srv("idle", "none", FALSE, EmptyMap, EmptyMap)
NewSrv  == Srv("new", "none", FALSE, EmptyMap, EmptyMap)

\* What Start has registered when it panics: the default health endpoints.
HealthOnlyMux(def) == [p \in HealthPatterns(def) |-> HealthHandler]

\* HTTPHandler.Start (http.go, lines 28-250).  bindOK: whether the port could
\* be bound; a bind failure reaches errChan within the grace window.
HTTPHandlerStart(def, bindOK) ==
    LET registry == loadExtensions(def.import)
        health   == ~HasCustomHealth(def)
    IN  IF def.context = Nil
        THEN Srv("panicked", "none", health, HealthOnlyMux(def), registry)
        ELSE LET variables == Deref(def.context).variables
             IN  IF NewRuntimeFails(registry)
                 THEN Srv("failed", "failed to create template runtime", health,
                          HealthOnlyMux(def), registry)
                 ELSE IF RegistrationPanics(def, variables)
                 THEN Srv("panicked", "none", health, HealthOnlyMux(def), registry)
                 ELSE IF ~bindOK
                 THEN Srv("failed", "failed to start HTTP server", health,
                          BuildMux(def, variables), registry)
                 ELSE Srv("serving", NoError, health,
                          BuildMux(def, variables), registry)

(***************************************************************************)
(* The message pipeline of TCPHandler.handleConnection and of the          *)
(* WebSocket handler's message loop.                                       *)
(***************************************************************************)
Conns == {"c1", "c2"}

\* The state of one connection's handling goroutine.
\*   pc         "none" (not connected), "open" (before a read), "prepare",
\*              "conds", "closed"
\*   msg, vars  the message read and the variables extracted from it
\*   next       the index of the condition evaluated next
\*   evaluated  the indices of the conditions rendered for msg, in order
\*   writes     what was written for msg
\*   done       the handling of msg ran to its end
\*   aborted    a panic ended the handling of msg
\*   reads      the reads made on the connection, failed ones included
\*   readErr    a read on the connection failed
Conn(pc, msg, mvars, next, evaluated, writes, done, aborted, reads, readErr) ==
    [pc |-> pc, msg |-> msg, vars |-> mvars, next |-> next,
     evaluated |-> evaluated, writes |-> writes, done |-> done,
     aborted |-> aborted, reads |-> reads, readErr |-> readErr]

NoConn == Conn("none", "", EmptyMap, 0, <<>>, <<>>, FALSE, FALSE, 0, FALSE)

\* Texts that end with "\n".
NewlineEnded == {"ready\n"}

\* A handler that appends a newline to every TCP response.
AppendsNewlineAlways(kind, text) == kind = "tcp"

\* tcp.go, lines 113-118: a newline is appended to a non-empty response that
\* does not end with one.
AppendsNewline(kind, text) == kind = "tcp" /\ text # "" /\ text \notin NewlineEnded

Write(kind, idx, text, nl) == [kind |-> kind, idx |-> idx, text |-> text, nl |-> nl]

\* The bytes of a write as the pieces sent: the text, then the newline.
WireBytes(w) ==
    (IF w.text = "" THEN <<>> ELSE <<w.text>>) \o (IF w.nl THEN <<"\n">> ELSE <<>>)

DiagOnMessageNil == "error: OnMessage is nil\n"
DiagTemplate(kind) == IF kind = "tcp" THEN "error de template" ELSE "template error"

\* tcp.go line 110, ws.go line 71: the render error is dropped and the
\* result compared with "true".
Matched(result) == result.out = "true"

\* A handler that closes the connection after a message whatever the protocol.
AfterMessageClosed(kind) == "closed"

\* A handler that reads on after a message whatever the protocol.
AfterMessageOpen(kind) == "open"

\* Where a connection goes after a message: TCP closes, WebSocket reads on.
AfterMessage(kind) == IF kind = "tcp" THEN "closed" ELSE "open"

\* A handler that reads before it looks at OnMessage.
AnswersWithoutReadNever(kind, def) == FALSE

\* tcp.go, lines 73-77: a nil OnMessage is answered before any read.
AnswersWithoutRead(kind, def) == kind = "tcp" /\ def.onMessage = Nil

\* The panics of the steps between the read and the first condition:
\* def.OnMessage.Match on a nil OnMessage (WebSocket; TCP has checked it),
\* regexp.MustCompile on a pattern that does not compile, and
\* def.Context.Variables on a nil Context.
PreparePanics(def, msg) ==
    \/ def.onMessage = Nil
    \/ extractVars(msg, Deref(def.onMessage).match).panic
    \/ def.context = Nil

\* A handler that keeps the extracted variables in one place for all its
\* connections: the data of a message holds another connection's variables
\* when there are some.
MessageContextShared(def, mvars) ==
    LET others == {d \in DOMAIN conns : conns[d].vars \notin {EmptyMap, mvars}}
    IN  MergeContext(IF others = {} THEN mvars
                     ELSE conns[CHOOSE d \in others : TRUE].vars,
                     EmptyMap, Deref(def.context).variables)

\* The template data of a message: MergeContext(matches, nil, variables).
MessageContext(def, mvars) ==
    MergeContext(mvars, EmptyMap, Deref(def.context).variables)

(***************************************************************************)
(* Idle values: what a part's variables hold while another part runs.      *)
(***************************************************************************)
IdleDef == MockDefinition("", 0, <<>>, Nil, <<>>, Nil, Nil, <<>>)

ValIdle  == vDef = IdleDef /\ vErr = "idle"
NoStart == [kind |-> "", def |-> IdleDef, outcome |-> ""]
\* The data directory before any workspace is written.
NewMockStore == [dirs |-> {}, saved |-> EmptyMap]
NoApi == [op |-> "", userID |-> "", mockID |-> "", status |-> 0]
DashIdle ==
    /\ mocks = EmptyMap /\ lastStart = NoStart
    /\ mockStore = NewMockStore /\ apiResp = NoApi
PipeIdle == pDef = IdleDef /\ pKind = "idle" /\ conns = EmptyMap /\ procUp = TRUE
HttpIdle == hDef = IdleDef /\ hSrv = IdleSrv /\ hResp = NoResp
LifeIdle == lifeH = EmptyMap /\ defaultMux = {}
SftpIdle == sftpS = EmptyMap
RegIdle  == regS = EmptyMap
LoadIdle == ldS = EmptyMap
ImportIdle == impS = EmptyMap
FuncIdle == fnS = EmptyMap
LockIdle == lkS = EmptyMap

(***************************************************************************)
(* SpecValidate: Validate applied to one definition of any shape.          *)
(***************************************************************************)
ValProtocols == {"http", "tcp", "ws", "sftp", "https", "websocket", "HTTP", ""}
ValPorts     == {0, 8080}
ValRoutes    ==
    SeqsUpTo({Route(<<"/", "a">>, "GET", 200, EmptyMap, Lit("ok"))}, MaxItems)
ValFiles     == SeqsUpTo({FileEntry("/welcome.txt", "hi")}, MaxItems)
ValOnMessage ==
    {Nil,
     Ptr(OnMessage(PatEmpty, <<>>, EmptyTpl)),
     Ptr(OnMessage(PatBad, <<OnMessageRule(BadTpl, BadTpl)>>, BadTpl))}
ValAuth      ==
    {Nil} \cup {Ptr(SFTPAuth(u, p)) : u \in {"", "u"}, p \in {"", "p"}}
ValContext   == {Nil, Ptr(Context(EmptyMap))}

ValDefs ==
    {MockDefinition(pr, po, ro, om, fi, au, cx, <<>>) :
        pr \in ValProtocols, po \in ValPorts, ro \in ValRoutes,
        om \in ValOnMessage, fi \in ValFiles, au \in ValAuth, cx \in ValContext}

InitValidate ==
    /\ vDef \in ValDefs
    /\ vErr = "pending"
    /\ DashIdle /\ PipeIdle /\ HttpIdle /\ LifeIdle /\ SftpIdle /\ RegIdle /\ LoadIdle /\ ImportIdle /\ FuncIdle /\ LockIdle

CallValidate ==
    /\ vErr = "pending"
    /\ vErr' = Validate(vDef)
    /\ UNCHANGED <<vDef, dashVars, pipeVars, httpVars, lifeVars, sftpVars, regVars, loadVars, importVars, funcVars, lockVars>>

NextValidate == CallValidate

SpecValidate == InitValidate /\ [][NextValidate]_vars

\* The shape the documentation asks of a definition.
RequiredFieldsPresent(def) ==
    \/ def.protocol = "http" /\ Len(def.routes) >= 1
    \/ def.protocol \in {"tcp", "ws"} /\ def.onMessage # Nil
    \/ /\ def.protocol = "sftp"
       /\ Len(def.files) >= 1
       /\ def.sftpAuth # Nil
       /\ Deref(def.sftpAuth).username # ""
       /\ Deref(def.sftpAuth).password # ""

\* The definitions that differ from def only in port, in the match regex and
\* in template texts.
SameStructure(def) ==
    {[def EXCEPT !.port = po, !.onMessage = om] :
        po \in ValPorts,
        om \in IF def.onMessage = Nil THEN {Nil} ELSE ValOnMessage \ {Nil}}

\* C4: Validate returns no error exactly when the protocol's required fields
\* are present (http: a route; tcp/ws: onMessage; sftp: a file and complete
\* credentials), an error for every other protocol or missing field, and its
\* answer does not depend on port, template text or the match regex.
C4_ValidateExact ==
    vErr \notin {"idle", "pending"} =>
        /\ (vErr = NoError) <=> RequiredFieldsPresent(vDef)
        /\ \A d \in SameStructure(vDef) : Validate(d) = vErr

C4_Witness ==
    /\ vErr = NoError
    /\ vDef.protocol = "sftp"
    /\ vDef.port = 0
    /\ vDef.onMessage # Nil /\ Deref(vDef.onMessage).match = PatBad

(***************************************************************************)
(* SpecHTTP: one HTTP definition, Start, then any requests.                *)
(***************************************************************************)
JSONHeader == [k \in {"Content-Type"} |-> Lit("application/json")]
TextHeader == [k \in {"Content-Type"} |-> Lit("text/plain")]
MixedHeaders ==
    [k \in {"X-Bad", "X-Part", "X-Ok"} |->
        CASE k = "X-Bad" -> BadTpl
          [] k = "X-Part" -> Partial("v1")
          [] OTHER -> Lit("ok")]

HttpRouteChoices ==
    {Route(PathA, "GET", 200, EmptyMap, Lit("a")),
     Route(PathA, "post", 201, EmptyMap, Field("input", "name")),
     Route(PathB, "", 200, MixedHeaders, Lit("b")),
     Route(PathRoot, "GET", 200, JSONHeader, Lit("hello")),
     Route(PathASlash, "GET", 200, EmptyMap, Partial("tree")),
     Route(PathHealth, "GET", 200, EmptyMap, Lit("custom health")),
     Route(PathHealthz, "POST", 200, EmptyMap, Lit("custom healthz")),
     Route(PathTpl, "GET", 200, TextHeader, BadTpl),
     Route(PathAB, "GET", 0, JSONHeader, Lit("nostatus"))}

HttpContexts ==
    {Nil,
     Ptr(Context(EmptyMap)),
     Ptr(Context([k \in {"base"} |-> PathHealth])),
     Ptr(Context([k \in {"base"} |-> PathA]))}

HttpImports == {<<>>, <<SrcGood, SrcMissing>>, <<SrcBroken>>}

HttpDefs ==
    {MockDefinition("http", 8080, ro, Nil, <<>>, Nil, cx, im) :
        ro \in SeqsUpTo(HttpRouteChoices, MaxRoutes) \ {<<>>},
        cx \in HttpContexts, im \in HttpImports}

HttpPaths == {PathRoot, PathA, PathASlash, PathAB, PathB, PathHealth, PathHealthz}

Request(method, path, json) == [method |-> method, path |-> path, json |-> json]

HttpRequests ==
    {Request(m, p, EmptyMap) : m \in {"GET", "POST", "HEAD", "OPTIONS"}, p \in HttpPaths}
    \cup {Request("POST", p, [k \in {"name"} |-> "bob"]) : p \in HttpPaths}

InitHTTP ==
    /\ hDef \in HttpDefs
    /\ hSrv = NewSrv
    /\ hResp = NoResp
    /\ ValIdle /\ DashIdle /\ PipeIdle /\ LifeIdle /\ SftpIdle /\ RegIdle /\ LoadIdle /\ ImportIdle /\ FuncIdle /\ LockIdle

HTTPStart ==
    /\ hSrv.phase = "new"
    /\ \E bindOK \in BOOLEAN : hSrv' = HTTPHandlerStart(hDef, bindOK)
    /\ UNCHANGED <<hDef, hResp, valVars, dashVars, pipeVars, lifeVars, sftpVars, regVars, loadVars, importVars, funcVars, lockVars>>

HTTPRequest ==
    /\ hSrv.phase = "serving"
    /\ \E req \in HttpRequests : hResp' = ServeHTTP(hDef, hSrv, req)
    /\ UNCHANGED <<hDef, hSrv, valVars, dashVars, pipeVars, lifeVars, sftpVars, regVars, loadVars, importVars, funcVars, lockVars>>

NextHTTP == HTTPStart \/ HTTPRequest

SpecHTTP == InitHTTP /\ [][NextHTTP]_vars

\* The context variables Start resolves the route paths against.
HttpVariables == IF hDef.context = Nil THEN EmptyMap ELSE Deref(hDef.context).variables

\* The paths the definition's routes are registered under.
ResolvedPaths ==
    {ResolvePath(hDef.routes[i].path, HttpVariables) : i \in 1..Len(hDef.routes)}

Answered == hResp.by # "none"

\* No route of the group takes the method: none has an equal method
\* (case-insensitively) and none has an empty method.
NoMethodMatches(routes, method) ==
    \A i \in 1..Len(routes) :
        /\ Upper(routes[i].method) # Upper(method)
        /\ routes[i].method # ""

\* C8: a request whose path is registered by some route but whose method
\* matches none of the routes grouped under that path is answered 405, and
\* no route's headers or body are rendered.
C8_MethodNotAllowed ==
    (/\ Answered
     /\ hResp.path \in ResolvedPaths
     /\ NoMethodMatches(RouteGroups(hDef, HttpVariables)[hResp.path], hResp.method))
    => /\ hResp.status = 405
       /\ hResp.by = "methodNotAllowed"
       /\ hResp.route = Nil
       /\ hResp.headers = EmptyMap
       /\ hResp.body = "Method not allowed"

C8_Witness ==
    /\ Answered
    /\ hResp.status = 405
    /\ hResp.method = "HEAD"
    /\ hResp.path = PathA
    /\ PathA \in ResolvedPaths
    /\ Len(RouteGroups(hDef, HttpVariables)[PathA]) = 2

\* C9: a GET whose path equals no resolved route path and is not
\* a default health path gets the router's not-found response and is never
\* answered by a user route, also when the definition has a route "/" or a
\* route ending in "/".
C9_UnregisteredPathNotFound ==
    (/\ Answered
     /\ hResp.method = "GET"
     /\ hResp.path \notin ResolvedPaths
     /\ ~(hSrv.health /\ hResp.path \in {PathHealth, PathHealthz}))
    => /\ hResp.by = "notFound"
       /\ hResp.status = 404
       /\ hResp.route = Nil

\* The health paths some route of the definition has as its path.
UserHealthPaths ==
    {p \in {PathHealth, PathHealthz} :
        \E i \in 1..Len(hDef.routes) : hDef.routes[i].path = p}

\* C10: Start installs the default health handler on /health and /healthz
\* exactly when no route has one of these paths; an installed default answers
\* GET with 200 and the healthy JSON body, HEAD with 200 and no body, OPTIONS
\* with 204; a health path a user route occupies is answered by the user's
\* routes.
C10_DefaultHealth ==
    /\ hSrv.phase \in {"serving", "failed", "panicked"} =>
          /\ hSrv.health <=> (UserHealthPaths = {})
          /\ \A p \in {PathHealth, PathHealthz} :
                hSrv.health <=> (p \in DOMAIN hSrv.mux /\ hSrv.mux[p].kind = "health")
    /\ (Answered /\ hSrv.health /\ hResp.path \in {PathHealth, PathHealthz}) =>
          /\ hResp.by = "health"
          /\ hResp.method = "GET" => hResp.status = 200 /\ hResp.body = HealthJSON
          /\ hResp.method = "HEAD" => hResp.status = 200 /\ hResp.body = ""
          /\ hResp.method = "OPTIONS" => hResp.status = 204
    /\ (Answered /\ hResp.path \in UserHealthPaths) =>
          /\ hResp.by \in {"route", "methodNotAllowed"}
          /\ hResp.pattern = hResp.path
          /\ hResp.by = "route" =>
                ResolvePath(Deref(hResp.route).path, HttpVariables) = hResp.path

C10_Witness ==
    /\ Answered
    /\ hSrv.health
    /\ hResp.path = PathHealthz
    /\ hResp.method = "OPTIONS"
    /\ hResp.status = 204

\* C5 (HTTP part): for a definition that passes Validate and has
\* no context block, Start completes on the normal path.
C5_NoContextNormalPath ==
    (Validate(hDef) = NoError /\ hDef.context = Nil) => hSrv.phase # "panicked"

\* The routes of the definition, by index, that are registered under path p
\* and take the method.
TakingRoutes(p, method) ==
    {i \in 1..Len(hDef.routes) :
        /\ ResolvePath(hDef.routes[i].path, HttpVariables) = p
        /\ (Upper(hDef.routes[i].method) = Upper(method) \/ hDef.routes[i].method = "")}

\* C11: Start registers each distinct resolved route path exactly once,
\* however many routes share it and also when a templated path resolves to
\* a default health path, and a request to that path is answered by the
\* first route in declaration order whose method equals the request's
\* (case-insensitively) or is empty.
C11_EachPathRegisteredOnce ==
    /\ (hSrv.phase # "new" /\ hDef.context # Nil /\ ~NewRuntimeFails(hSrv.registry)) =>
          /\ hSrv.phase # "panicked"
          /\ \A p \in ResolvedPaths :
                /\ p \in DOMAIN hSrv.mux
                /\ hSrv.mux[p].kind = "routes"
    /\ (Answered /\ hResp.path \in ResolvedPaths
            /\ TakingRoutes(hResp.path, hResp.method) # {}) =>
          /\ hResp.by = "route"
          /\ hResp.route = Ptr(hDef.routes[
                CHOOSE i \in TakingRoutes(hResp.path, hResp.method) :
                    \A j \in TakingRoutes(hResp.path, hResp.method) : i <= j])

\* The template data of the request that hResp answers.
RespCtx ==
    MergeContext(IF hResp.method \in {"POST", "PUT", "PATCH"}
                 THEN hResp.json ELSE EmptyMap,
                 EmptyMap, HttpVariables)

\* C12: for every request matched to a route a response is written; each
\* header is rendered on its own, a header whose template fails is sent with
\* its raw text and the others rendered; when the body template fails the
\* body is the generic JSON error payload and Content-Type is
\* application/json.
C12_HeadersAndBodyRendered ==
    (Answered /\ hResp.route # Nil) =>
        LET rt == Deref(hResp.route)
            bodyFails == Render(rt.body, RespCtx).err
        IN  /\ hResp.by = "route"
            /\ \A k \in DOMAIN rt.headers :
                  (k = "Content-Type" /\ bodyFails)
                  \/ /\ k \in DOMAIN hResp.headers
                     /\ hResp.headers[k].text =
                          IF Render(rt.headers[k], RespCtx).err
                          THEN rt.headers[k]
                          ELSE Lit(Render(rt.headers[k], RespCtx).out)
            /\ bodyFails =>
                  /\ hResp.body = GenericErrorBody
                  /\ "Content-Type" \in DOMAIN hResp.headers
                  /\ hResp.headers["Content-Type"].text = Lit("application/json")

C12_Witness ==
    /\ Answered
    /\ hResp.by = "route"
    /\ DOMAIN hResp.headers = {"X-Bad", "X-Part", "X-Ok"}
    /\ hResp.headers["X-Bad"].text = BadTpl
    /\ hResp.headers["X-Part"].text = Partial("v1")
    /\ hResp.headers["X-Ok"].text = Lit("ok")

(***************************************************************************)
(* SpecPipe: a started TCP or WebSocket handler and two client             *)
(* connections.                                                            *)
(***************************************************************************)
PipeRules ==
    {OnMessageRule(EqField("input", "cmd", "ping"), Lit("pong")),
     OnMessageRule(Lit("true"), Field("input", "msg")),
     OnMessageRule(Partial("true"), Lit("partial")),
     OnMessageRule(BadTpl, Lit("ready\n"))}

PipeElse == {EmptyTpl, Lit("unknown"), BadTpl}

\* The rules of TestTCPBasicCommunication: the group cmd read at the root.
RootCmdOnMessage ==
    OnMessage(PatCmd, <<OnMessageRule(EqRoot("cmd", "ping"), Lit("pong"))>>,
              RootField("cmd"))

PipeContext == Ptr(Context([k \in {"user"} |-> "kuro"]))

\* Definitions of every rule shape with a context and imports that load, and
\* a few with no onMessage, no context or an import that does not parse.
PipeDefs ==
    {MockDefinition("tcp", 9000, <<>>, Ptr(OnMessage(ma, co, el)), <<>>, Nil,
                    PipeContext, <<SrcGood, SrcMissing>>) :
        ma \in {PatEmpty, PatCmd, PatBad},
        co \in SeqsUpTo(PipeRules, MaxConds),
        el \in PipeElse}
    \cup
    {MockDefinition("tcp", 9000, <<>>, om, <<>>, Nil, cx, im) :
        om \in {Nil,
                Ptr(OnMessage(PatCmd,
                              <<OnMessageRule(EqField("input", "cmd", "ping"),
                                              Lit("pong"))>>,
                              Lit("unknown"))),
                Ptr(OnMessage(PatOpt,
                              <<OnMessageRule(EqField("input", "cmd", "ping"),
                                              Lit("pong"))>>,
                              Field("input", "rest"))),
                Ptr(RootCmdOnMessage),
                Ptr(OnMessage(PatEmpty,
                              <<OnMessageRule(EqField("input", "msg", "ping"),
                                              Lit("ready\n")),
                                OnMessageRule(Lit("true"), EmptyTpl)>>,
                              Lit("unknown")))},
        cx \in {Nil, PipeContext},
        im \in {<<>>, <<SrcBroken, SrcGood>>}}

InitPipe ==
    /\ pDef \in PipeDefs
    /\ pKind \in {"tcp", "ws"}
    /\ conns = [c \in Conns |-> NoConn]
    /\ procUp = TRUE
    /\ ValIdle /\ DashIdle /\ HttpIdle /\ LifeIdle /\ SftpIdle /\ RegIdle /\ LoadIdle /\ ImportIdle /\ FuncIdle /\ LockIdle

\* Accept (TCP) or a successful upgrade (WebSocket).
Connect(c) ==
    /\ procUp
    /\ conns[c].pc = "none"
    /\ conns' = [conns EXCEPT ![c].pc = "open"]
    /\ UNCHANGED <<pDef, pKind, procUp, valVars, dashVars, httpVars, lifeVars, sftpVars, regVars, loadVars, importVars, funcVars, lockVars>>

\* TCP (tcp.go, lines 63-77): a nil OnMessage is answered with a diagnostic
\* and the connection closed, without a read.
RejectNilOnMessage(c) ==
    /\ procUp
    /\ conns[c].pc = "open"
    /\ AnswersWithoutRead(pKind, pDef)
    /\ conns' = [conns EXCEPT
            ![c].pc = "closed",
            ![c].writes = <<Write("diag", 0, DiagOnMessageNil, FALSE)>>]
    /\ UNCHANGED <<pDef, pKind, procUp, valVars, dashVars, httpVars, lifeVars, sftpVars, regVars, loadVars, importVars, funcVars, lockVars>>

\* A read returns a message.
Receive(c, m) ==
    /\ procUp
    /\ conns[c].pc = "open"
    /\ ~AnswersWithoutRead(pKind, pDef)
    /\ conns[c].reads < MaxReads
    /\ conns' = [conns EXCEPT ![c] =
            Conn("prepare", m, EmptyMap, 0, <<>>, <<>>, FALSE, FALSE,
                 conns[c].reads + 1, FALSE)]
    /\ UNCHANGED <<pDef, pKind, procUp, valVars, dashVars, httpVars, lifeVars, sftpVars, regVars, loadVars, importVars, funcVars, lockVars>>

\* The read fails (the peer went away): the connection is dropped.
ReadError(c) ==
    /\ procUp
    /\ conns[c].pc = "open"
    /\ ~AnswersWithoutRead(pKind, pDef)
    /\ conns[c].reads < MaxReads
    /\ conns' = [conns EXCEPT ![c].pc = "closed",
                              ![c].reads = @ + 1,
                              ![c].readErr = TRUE]
    /\ UNCHANGED <<pDef, pKind, procUp, valVars, dashVars, httpVars, lifeVars, sftpVars, regVars, loadVars, importVars, funcVars, lockVars>>

\* extractVars, loadExtensions, MergeContext, NewRuntime (tcp.go, lines
\* 91-100; ws.go, lines 52-60).  A panic in a TCP connection's goroutine is
\* not recovered and ends the process; a panic in the WebSocket handler is
\* recovered by net/http, which drops that connection.
Prepare(c) ==
    /\ procUp
    /\ conns[c].pc = "prepare"
    /\ IF PreparePanics(pDef, conns[c].msg)
       THEN /\ conns' = [conns EXCEPT ![c].pc = "closed", ![c].aborted = TRUE]
            /\ procUp' = (pKind # "tcp")
       ELSE /\ procUp' = procUp
            /\ IF NewRuntimeFails(loadExtensions(pDef.import))
               THEN conns' = [conns EXCEPT
                        ![c].pc = AfterMessage(pKind),
                        ![c].writes = <<Write("diag", 0, DiagTemplate(pKind), FALSE)>>,
                        ![c].done = TRUE]
               ELSE conns' = [conns EXCEPT
                        ![c].pc = "conds",
                        ![c].vars = extractVars(conns[c].msg,
                                                Deref(pDef.onMessage).match).vars,
                        ![c].next = 1]
    /\ UNCHANGED <<pDef, pKind, valVars, dashVars, httpVars, lifeVars, sftpVars, regVars, loadVars, importVars, funcVars, lockVars>>

\* One turn of the loop over the conditions (tcp.go, lines 102-122; ws.go,
\* lines 63-78).
EvalCond(c) ==
    /\ procUp
    /\ conns[c].pc = "conds"
    /\ conns[c].next <= Len(Deref(pDef.onMessage).conditions)
    /\ LET i    == conns[c].next
           cond == Deref(pDef.onMessage).conditions[i]
           ctx  == MessageContext(pDef, conns[c].vars)
           resp == Render(cond.respond, ctx).out
       IN  IF Matched(Render(cond.if, ctx))
           THEN conns' = [conns EXCEPT
                    ![c].evaluated = Append(@, i),
                    ![c].writes = <<Write("respond", i, resp,
                                          AppendsNewline(pKind, resp))>>,
                    ![c].pc = AfterMessage(pKind),
                    ![c].done = TRUE]
           ELSE conns' = [conns EXCEPT
                    ![c].evaluated = Append(@, i),
                    ![c].next = i + 1]
    /\ UNCHANGED <<pDef, pKind, procUp, valVars, dashVars, httpVars, lifeVars, sftpVars, regVars, loadVars, importVars, funcVars, lockVars>>

\* No condition matched (tcp.go, lines 124-134; ws.go, lines 80-84).
Fallback(c) ==
    /\ procUp
    /\ conns[c].pc = "conds"
    /\ conns[c].next > Len(Deref(pDef.onMessage).conditions)
    /\ LET ctx  == MessageContext(pDef, conns[c].vars)
           resp == Render(Deref(pDef.onMessage).else, ctx).out
       IN  IF Deref(pDef.onMessage).else # EmptyTpl
           THEN conns' = [conns EXCEPT
                    ![c].writes = <<Write("else", 0, resp,
                                          AppendsNewline(pKind, resp))>>,
                    ![c].pc = AfterMessage(pKind),
                    ![c].done = TRUE]
           ELSE conns' = [conns EXCEPT
                    ![c].pc = AfterMessage(pKind),
                    ![c].done = TRUE]
    /\ UNCHANGED <<pDef, pKind, procUp, valVars, dashVars, httpVars, lifeVars, sftpVars, regVars, loadVars, importVars, funcVars, lockVars>>

NextPipe ==
    \E c \in Conns :
        \/ Connect(c)
        \/ RejectNilOnMessage(c)
        \/ \E m \in Msgs : Receive(c, m)
        \/ ReadError(c)
        \/ Prepare(c)
        \/ EvalCond(c)
        \/ Fallback(c)

SpecPipe == InitPipe /\ [][NextPipe]_vars

\* The rules of the running definition, and the message data of connection c.
PipeConds == Deref(pDef.onMessage).conditions
PipeCtx(c) == MessageContext(pDef, conns[c].vars)

\* The conditions of the definition whose `if` renders to "true" for the
\* message of c, and the first of them (0: none).
TrueConds(c) ==
    {i \in 1..Len(PipeConds) : Render(PipeConds[i].if, PipeCtx(c)).out = "true"}
FirstTrue(c) ==
    IF TrueConds(c) = {} THEN 0
    ELSE CHOOSE i \in TrueConds(c) : \A j \in TrueConds(c) : i <= j

\* What the handler builds the per-message template runtime from.
RuntimeBuilt == ~NewRuntimeFails(loadExtensions(pDef.import))

\* What was written for the message of c: which template and its text.
Written(c) ==
    [j \in 1..Len(conns[c].writes) |->
        [kind |-> conns[c].writes[j].kind, idx |-> conns[c].writes[j].idx,
         text |-> conns[c].writes[j].text]]

\* The response the rules select for the message of c.
Selected(c) ==
    IF FirstTrue(c) # 0
    THEN <<[kind |-> "respond", idx |-> FirstTrue(c),
            text |-> Render(PipeConds[FirstTrue(c)].respond, PipeCtx(c)).out]>>
    ELSE IF Deref(pDef.onMessage).else # EmptyTpl
    THEN <<[kind |-> "else", idx |-> 0,
            text |-> Render(Deref(pDef.onMessage).else, PipeCtx(c)).out]>>
    ELSE <<>>

\* The conditions are evaluated in declaration order, none after the first
\* that renders to "true", and at most one response is written.
InOrderAtMostOne(c) ==
    /\ \A j \in 1..Len(conns[c].evaluated) : conns[c].evaluated[j] = j
    /\ Len(conns[c].writes) <= 1
    /\ (conns[c].pc = "conds" /\ FirstTrue(c) # 0) =>
            Len(conns[c].evaluated) <= FirstTrue(c)

\* The message of c was handled to the end with the selected response.
SelectedWritten(c) ==
    /\ Written(c) = Selected(c)
    /\ Len(conns[c].evaluated) =
            IF FirstTrue(c) # 0 THEN FirstTrue(c) ELSE Len(PipeConds)

\* C1: for every message handled the conditions are evaluated in
\* declaration order and at most one response is written: the respond of the
\* first condition whose `if` renders to "true", otherwise a non-empty else,
\* otherwise nothing.
C1_FirstMatchWins ==
    \A c \in Conns :
        /\ InOrderAtMostOne(c)
        /\ conns[c].done => SelectedWritten(c)

C1_Witness ==
    \E c \in Conns :
        /\ conns[c].done
        /\ Len(PipeConds) = 2
        /\ conns[c].evaluated = <<1, 2>>
        /\ Len(conns[c].writes) = 1
        /\ conns[c].writes[1].kind = "respond"
        /\ conns[c].writes[1].idx = 2

\* A template of the rules failed to render for the message of c.
SomeTemplateFailed(c) ==
    \/ ~RuntimeBuilt
    \/ \E j \in 1..Len(conns[c].evaluated) :
          Render(PipeConds[conns[c].evaluated[j]].if, PipeCtx(c)).err
    \/ \E j \in 1..Len(conns[c].writes) :
          \/ /\ conns[c].writes[j].kind = "respond"
             /\ Render(PipeConds[conns[c].writes[j].idx].respond, PipeCtx(c)).err
          \/ /\ conns[c].writes[j].kind = "else"
             /\ Render(Deref(pDef.onMessage).else, PipeCtx(c)).err

\* C2: a match pattern that does not compile, or a template that
\* fails to parse or execute, is caught for that message: the process and
\* the other connections go on, and the message produces no response.
C2_FailuresCaughtPerMessage ==
    (pDef.onMessage # Nil /\ pDef.context # Nil) =>
        /\ procUp
        /\ \A c \in Conns :
              (conns[c].done /\ SomeTemplateFailed(c)) => conns[c].writes = <<>>

\* The handling of the connection has ended: its message was handled to the
\* end, its read failed, or a panic ended it.
Ended(c) == conns[c].done \/ conns[c].readErr \/ conns[c].aborted

\* At most one read and one write were made on c, and a connection whose
\* handling has ended is closed.
AtMostOneCycle(c) ==
    /\ conns[c].reads <= 1
    /\ Len(conns[c].writes) <= 1
    /\ Ended(c) => conns[c].pc = "closed"

\* C13, for every definition: every connection accepted by the TCP handler goes
\* through exactly one read and at most one write and is then closed, on
\* every path; there is never a second read.
C13_OneReadOneWriteClosed ==
    pKind = "tcp" =>
        \A c \in Conns :
            /\ AtMostOneCycle(c)
            /\ conns[c].pc = "closed" => conns[c].reads = 1

\* C13, by onMessage: the same for a definition whose onMessage is set; with a
\* nil onMessage the connection is closed after the diagnostic, with no read.
C13_OneReadUnlessNilOnMessage ==
    pKind = "tcp" =>
        \A c \in Conns :
            /\ AtMostOneCycle(c)
            /\ conns[c].pc = "closed" =>
                  conns[c].reads = IF pDef.onMessage = Nil THEN 0 ELSE 1

C13_Witness ==
    /\ pKind = "tcp"
    /\ conns["c1"].pc = "closed" /\ conns["c1"].done
    /\ conns["c1"].reads = 1
    /\ Len(conns["c1"].writes) = 1 /\ conns["c1"].writes[1].kind = "else"
    /\ conns["c2"].pc = "closed" /\ conns["c2"].readErr

\* C15: a TCP connection served for a definition whose onMessage is nil gets
\* the diagnostic string and is closed without any read, and the process
\* and its accept loop go on for the other connections.
C15_NilOnMessageDiagnosed ==
    (pKind = "tcp" /\ pDef.onMessage = Nil) =>
        /\ procUp
        /\ \A c \in Conns :
              /\ conns[c].reads = 0
              /\ conns[c].pc \in {"none", "open", "closed"}
              /\ conns[c].pc = "closed" =>
                    /\ Len(conns[c].writes) = 1
                    /\ conns[c].writes[1].text = DiagOnMessageNil

C15_Witness ==
    /\ pKind = "tcp" /\ pDef.onMessage = Nil
    /\ \A c \in Conns : conns[c].pc = "closed" /\ Len(conns[c].writes) = 1

\* C16: a WebSocket connection is served message after message until a read
\* on it fails; a read error or a failure in handling a message ends at most
\* that connection, and the process and the other connections go on.
C16_WebSocketServedUntilReadFails ==
    pKind = "ws" =>
        /\ procUp
        /\ \A c \in Conns :
              /\ (conns[c].done /\ ~conns[c].readErr) => conns[c].pc = "open"
              /\ conns[c].pc = "closed" => (conns[c].readErr \/ conns[c].aborted)

C16_Witness ==
    /\ pKind = "ws"
    /\ conns["c1"].pc = "closed" /\ conns["c1"].readErr
    /\ conns["c2"].reads = 2 /\ conns["c2"].done /\ conns["c2"].pc = "open"
    /\ Len(conns["c2"].writes) = 1

(***************************************************************************)
(* package web: the dashboard's registry of mock services, and package     *)
(* loader.                                                                 *)
(***************************************************************************)
\* strings.ToLower on the protocol strings the model draws.
ToLower(s) ==
    CASE s = "HTTP" -> "http"
      [] s = "HTTPS" -> "https"
      [] s = "WS" -> "ws"
      [] OTHER -> s

\* MockService: cancel stands for the fields Context and Cancel, which are
\* set and cleared together; a mock is built with both unset.
MockService(protocol, port, running, definition, handler) ==
    [protocol |-> protocol, port |-> port, running |-> running,
     definition |-> definition, handler |-> handler, cancel |-> FALSE]

\* Server.generateMockDefinition: the definition built for a requested
\* protocol string.  It sets no context; the else text "Echo: {{message}}"
\* names an undefined function and does not parse.
generateMockDefinition(protocol, port) ==
    LET p == ToLower(protocol)
        routes ==
            IF p \in {"http", "https"}
            THEN <<Route(PathRoot, "GET", 200, JSONHeader, Lit("hello"))>>
            ELSE <<>>
        onMessage ==
            IF p = "tcp"
            THEN Ptr(OnMessage(PatAny,
                     <<OnMessageRule(Lit("HELLO"), Lit("HELLO from"))>>, BadTpl))
            ELSE IF p \in {"websocket", "ws"}
            THEN Ptr(OnMessage(PatAny,
                     <<OnMessageRule(Lit("ping"), Lit("pong from"))>>, BadTpl))
            ELSE Nil
        files ==
            IF p = "sftp"
            THEN <<FileEntry("/welcome.txt", "Welcome"),
                   FileEntry("/data/sample.json", "{}")>>
            ELSE <<>>
        sftpAuth == IF p = "sftp" THEN Ptr(SFTPAuth("usekuro", "kuro123")) ELSE Nil
    IN  MockDefinition(p, port, routes, onMessage, files, sftpAuth, Nil, <<>>)

\* A file on disk: whether its text unmarshals, and the definition it then
\* gives.
File(parses, def) == [readable |-> TRUE, parses |-> parses, def |-> def]
\* A path that cannot be read.
Unreadable == [readable |-> FALSE, parses |-> FALSE, def |-> IdleDef]

\* A loader that returns what it parsed without calling Validate.
LoadWithoutValidate(file) ==
    IF ~file.readable
    THEN [def |-> Nil, err |-> "error reading file"]
    ELSE IF ~file.parses
    THEN [def |-> Nil, err |-> "invalid format"]
    ELSE [def |-> Ptr(file.def), err |-> NoError]

\* loader.LoadMockFromFile: the definition and the error returned.
LoadMockFromFile(file) ==
    IF ~file.readable
    THEN [def |-> Nil, err |-> "error reading file"]
    ELSE IF ~file.parses
    THEN [def |-> Nil, err |-> "invalid format"]
    ELSE IF Validate(file.def) # NoError
    THEN [def |-> Nil, err |-> "schema validation failed"]
    ELSE [def |-> Ptr(file.def), err |-> NoError]

\* Server.loadMocksFromDirectory: one stopped MockService per file that loads.
loadMocksFromDirectory(dir) ==
    LET loaded == {f \in DOMAIN dir : LoadMockFromFile(dir[f]).err = NoError}
    IN  [f \in loaded |->
            LET d == Deref(LoadMockFromFile(dir[f]).def)
            IN  MockService(d.protocol, d.port, FALSE, Ptr(d), "")]

\* The switch of handleToggleMock on strings.ToLower(mock.Protocol): the
\* handler constructed, "" for the default branch.
HandlerFor(protocol) ==
    CASE ToLower(protocol) \in {"http", "https"} -> "http"
      [] ToLower(protocol) = "tcp" -> "tcp"
      [] ToLower(protocol) \in {"ws", "websocket"} -> "ws"
      [] ToLower(protocol) = "sftp" -> "sftp"
      [] OTHER -> ""

\* How handler.Start(def) ends for the caller: "ok" (nil), "err", "panic",
\* or "fatal" (nil returned, then the serving goroutine's logger.Fatal).
\* envOK: the port can be bound (and, for sftp, the host key loads).
StartOutcome(kind, def, envOK, mux) ==
    CASE kind = "http" ->
            LET srv == HTTPHandlerStart(def, envOK)
            IN  IF srv.phase = "panicked" THEN "panic"
                ELSE IF srv.ret = NoError THEN "ok" ELSE "err"
      [] kind = "ws" ->
            IF PathRoot \in mux THEN "panic"
            ELSE IF envOK THEN "ok" ELSE "fatal"
      [] OTHER -> IF envOK THEN "ok" ELSE "err"

\* strings.HasPrefix.
HasPrefix(s, prefix) ==
    Len(s) >= Len(prefix) /\ SubSeq(s, 1, Len(prefix)) = prefix

\* fmt.Sprintf("user_%s_%d", userID, time.Now().UnixNano()).
UserMockID(userID, nanos) == "user_" \o userID \o "_" \o nanos

\* The test both delete handlers make before touching a mock.
HasUserPrefix(mockID, userID) == HasPrefix(mockID, "user_" \o userID \o "_")

\* MockStore.SaveMock: MkdirAll of the workspace, then the mock's files
\* with its UserID in the metadata.
SaveMock(store, userID, mockID) ==
    [dirs |-> store.dirs \cup {userID}, saved |-> (mockID :> userID) @@ store.saved]

\* MockStore.DeleteMock: removes the mock's files from userID's directory;
\* files that are not there are not an error.
DeleteMock(store, userID, mockID) ==
    [store EXCEPT !.saved =
        [m \in {x \in DOMAIN store.saved :
                    ~(x = mockID /\ store.saved[x] = userID)} |-> store.saved[m]]]

\* os.RemoveAll of the workspace directory.
RemoveWorkspace(store, userID) ==
    [dirs |-> store.dirs \ {userID},
     saved |-> [m \in {x \in DOMAIN store.saved : store.saved[x] # userID} |->
                  store.saved[m]]]

ApiResp(op, userID, mockID, status) ==
    [op |-> op, userID |-> userID, mockID |-> mockID, status |-> status]

\* A running mock other than id holds the port.
PortConflict(id, port) ==
    \E o \in DOMAIN mocks : mocks[o].running /\ mocks[o].port = port /\ o # id

(***************************************************************************)
(* SpecDash: the dashboard after loadExampleMocks, serving API requests.   *)
(* A request answered with an error status before any assignment leaves    *)
(* the state as it is and is not a step.                                   *)
(***************************************************************************)
DashPorts       == {8080, 9000}
DashProtocols   == {"http", "HTTPS", "websocket", "tcp", "sftp"}
UpdateProtocols == {"HTTP", "grpc"}
UpdatePorts     == {Nil, Ptr(9000)}
AddProtocols    == {"tcp"}
Workspaces      == {"default", "qa", "qa_eu"}
Nanos           == {"1"}
MaxUserMocks    == 2
\* The IDs handleCreateUserMock can give.
UserIDs         == {UserMockID(u, n) : u \in Workspaces, n \in Nanos}
CustomID        == "custom_1"

\* The .kuro files of the examples directory.
DashFiles ==
    [f \in {"api", "echo", "norules", "garbage"} |->
        CASE f = "api" ->
                File(TRUE, MockDefinition("http", 8080,
                        <<Route(PathA, "GET", 200, EmptyMap, Lit("a"))>>,
                        Nil, <<>>, Nil, Ptr(Context(EmptyMap)), <<>>))
          [] f = "echo" ->
                File(TRUE, MockDefinition("tcp", 9000, <<>>,
                        Ptr(OnMessage(PatAny, <<>>, Lit("unknown"))),
                        <<>>, Nil, Nil, <<>>))
          [] f = "norules" ->
                File(TRUE, MockDefinition("tcp", 9000, <<>>, Nil, <<>>, Nil, Nil, <<>>))
          [] OTHER -> File(FALSE, IdleDef)]

InitDash ==
    /\ \E present \in SUBSET DOMAIN DashFiles :
          mocks = loadMocksFromDirectory([f \in present |-> DashFiles[f]])
    /\ lastStart = NoStart
    /\ mockStore = NewMockStore /\ apiResp = NoApi
    /\ ValIdle /\ PipeIdle /\ HttpIdle /\ LifeIdle /\ SftpIdle /\ RegIdle /\ LoadIdle /\ ImportIdle /\ FuncIdle /\ LockIdle

\* Server.handleCreateUserMock in workspace userID; nanos stands for the
\* digits of time.Now().UnixNano().  The entry is stored under the ID built
\* from the clock, whether or not the registry has that ID already.
handleCreateUserMock(userID, nanos, protocol, port) ==
    /\ procUp
    /\ Cardinality(DOMAIN mocks \cap UserIDs) < MaxUserMocks
    /\ port > 0 /\ port <= 65535
    /\ ~\E o \in DOMAIN mocks : mocks[o].running /\ mocks[o].port = port
    /\ mocks' = (UserMockID(userID, nanos) :>
                    MockService(protocol, port, FALSE,
                        Ptr(generateMockDefinition(protocol, port)), "")) @@ mocks
    /\ mockStore' = SaveMock(mockStore, userID, UserMockID(userID, nanos))
    /\ apiResp' = NoApi
    /\ UNCHANGED <<lastStart, valVars, pipeVars, httpVars, lifeVars, sftpVars, regVars, loadVars, importVars, funcVars, lockVars>>

\* Server.handleAddMock: the decoded MockService carries no definition; its
\* ID is built from time.Now().Unix(), CustomID for every request of one second.
handleAddMock(protocol, port) ==
    /\ procUp
    /\ port > 0 /\ port <= 65535
    /\ mocks' = (CustomID :> MockService(protocol, port, FALSE, Nil, "")) @@ mocks
    /\ apiResp' = NoApi
    /\ UNCHANGED <<lastStart, mockStore, valVars, pipeVars, httpVars, lifeVars, sftpVars, regVars, loadVars, importVars, funcVars, lockVars>>

\* Server.handleUpdateMock with a protocol and, when port # Nil, a port.
handleUpdateMock(id, protocol, port) ==
    /\ procUp
    /\ ToLower(protocol) # ""
    /\ id \in DOMAIN mocks
    /\ mocks' = [mocks EXCEPT
                    ![id].protocol = ToLower(protocol),
                    ![id].port = IF port = Nil THEN @ ELSE Deref(port)]
    /\ apiResp' = NoApi
    /\ UNCHANGED <<lastStart, mockStore, valVars, pipeVars, httpVars, lifeVars, sftpVars, regVars, loadVars, importVars, funcVars, lockVars>>

\* Server.handleToggleMock: stop a running mock, or start a stopped one.
\* Context and Cancel are set before the handler is chosen and started, and
\* stay set when the protocol is not supported or Start fails.
handleToggleMock(id, envOK) ==
    /\ procUp
    /\ id \in DOMAIN mocks
    /\ IF mocks[id].running
       THEN /\ mocks' = [mocks EXCEPT ![id].running = FALSE, ![id].handler = "",
                                       ![id].cancel = FALSE]
            /\ UNCHANGED <<lastStart, procUp, defaultMux>>
       ELSE /\ mocks[id].definition # Nil
            /\ ~PortConflict(id, mocks[id].port)
            /\ IF HandlerFor(mocks[id].protocol) = ""
               THEN /\ mocks' = [mocks EXCEPT ![id].cancel = TRUE]
                    /\ UNCHANGED <<lastStart, procUp, defaultMux>>
               ELSE LET kind    == HandlerFor(mocks[id].protocol)
                        def     == Deref(mocks[id].definition)
                        outcome == StartOutcome(kind, def, envOK, defaultMux)
                    IN  /\ lastStart' = [kind |-> kind, def |-> def,
                                          outcome |-> outcome]
                        /\ mocks' = IF outcome \in {"ok", "fatal"}
                                    THEN [mocks EXCEPT ![id].running = TRUE,
                                                       ![id].handler = kind,
                                                       ![id].cancel = TRUE]
                                    ELSE [mocks EXCEPT ![id].cancel = TRUE]
                        /\ procUp' = (outcome # "fatal")
                        /\ defaultMux' = IF kind = "ws" /\ outcome # "panic"
                                         THEN defaultMux \cup {PathRoot}
                                         ELSE defaultMux
    /\ apiResp' = NoApi
    /\ UNCHANGED <<mockStore, valVars, pDef, pKind, conns, httpVars, lifeH, sftpVars, regVars, loadVars, importVars, funcVars, lockVars>>

\* Server.handleUserMock, case DELETE: refused unless the ID starts with
\* "user_<userID>_"; otherwise the runtime mock is stopped if it runs and
\* removed, then its files are deleted from userID's directory.
handleUserMockDelete(userID, mockID) ==
    /\ procUp
    /\ IF ~HasUserPrefix(mockID, userID)
       THEN /\ apiResp' = ApiResp("DELETE mock", userID, mockID, 403)
            /\ UNCHANGED <<mocks, mockStore>>
       ELSE /\ mocks' = [o \in DOMAIN mocks \ {mockID} |-> mocks[o]]
            /\ mockStore' = DeleteMock(mockStore, userID, mockID)
            /\ apiResp' = ApiResp("DELETE mock", userID, mockID, 200)
    /\ UNCHANGED <<lastStart, valVars, pipeVars, httpVars, lifeVars, sftpVars, regVars, loadVars, importVars, funcVars, lockVars>>

\* Server.handleDeleteWorkspace: refused for "default" and for a workspace
\* with no directory; otherwise every runtime mock whose ID starts with
\* "user_<userID>_" is stopped if it runs and removed, then the directory is
\* removed.
handleDeleteWorkspace(userID) ==
    /\ procUp
    /\ IF userID = "default"
       THEN /\ apiResp' = ApiResp("DELETE workspace", userID, "", 400)
            /\ UNCHANGED <<mocks, mockStore>>
       ELSE IF userID \notin mockStore.dirs
       THEN /\ apiResp' = ApiResp("DELETE workspace", userID, "", 404)
            /\ UNCHANGED <<mocks, mockStore>>
       ELSE /\ mocks' = [o \in {x \in DOMAIN mocks : ~HasUserPrefix(x, userID)} |->
                            mocks[o]]
            /\ mockStore' = RemoveWorkspace(mockStore, userID)
            /\ apiResp' = ApiResp("DELETE workspace", userID, "", 200)
    /\ UNCHANGED <<lastStart, valVars, pipeVars, httpVars, lifeVars, sftpVars, regVars, loadVars, importVars, funcVars, lockVars>>

\* Server.handleToggleServer with action "stop": every running mock stops.
handleToggleServer ==
    /\ procUp
    /\ \E o \in DOMAIN mocks : mocks[o].running
    /\ mocks' = [o \in DOMAIN mocks |->
                    IF mocks[o].running
                    THEN [mocks[o] EXCEPT !.running = FALSE, !.handler = "",
                                          !.cancel = FALSE]
                    ELSE mocks[o]]
    /\ apiResp' = NoApi
    /\ UNCHANGED <<lastStart, mockStore, valVars, pipeVars, httpVars, lifeVars, sftpVars, regVars, loadVars, importVars, funcVars, lockVars>>

\* The clock has moved on between two creations here; requests within one
\* clock tick are SpecInsert's.
NextDash ==
    \/ \E nanos \in Nanos, pr \in DashProtocols, po \in DashPorts :
          /\ UserMockID("default", nanos) \notin DOMAIN mocks
          /\ handleCreateUserMock("default", nanos, pr, po)
    \/ \E pr \in AddProtocols, po \in DashPorts : handleAddMock(pr, po)
    \/ \E id \in UserIDs \cup {CustomID} \cup DOMAIN DashFiles,
          pr \in UpdateProtocols, po \in UpdatePorts :
          handleUpdateMock(id, pr, po)
    \/ \E id \in UserIDs \cup {CustomID} \cup DOMAIN DashFiles, envOK \in BOOLEAN :
          handleToggleMock(id, envOK)
    \/ handleToggleServer

SpecDash == InitDash /\ [][NextDash]_vars

(***************************************************************************)
(* SpecInsert: the dashboard started on an empty mocks directory; mocks    *)
(* are added and created, several within one tick of the clock, toggled    *)
(* and stopped.                                                            *)
(***************************************************************************)
InsertWorkspaces == {"default", "qa"}
InsertProtocols  == {"tcp", "websocket"}

InitInsert ==
    /\ mocks = loadMocksFromDirectory(EmptyMap)
    /\ lastStart = NoStart
    /\ mockStore = NewMockStore /\ apiResp = NoApi
    /\ ValIdle /\ PipeIdle /\ HttpIdle /\ LifeIdle /\ SftpIdle /\ RegIdle /\ LoadIdle /\ ImportIdle /\ FuncIdle /\ LockIdle

NextInsert ==
    \/ \E userID \in InsertWorkspaces, nanos \in Nanos,
          pr \in InsertProtocols, po \in DashPorts :
          handleCreateUserMock(userID, nanos, pr, po)
    \/ \E pr \in AddProtocols, po \in DashPorts : handleAddMock(pr, po)
    \/ \E id \in UserIDs \cup {CustomID}, envOK \in BOOLEAN : handleToggleMock(id, envOK)
    \/ handleToggleServer

SpecInsert == InitInsert /\ [][NextInsert]_vars

(***************************************************************************)
(* SpecWorkspace: the dashboard with the examples "api" and "echo" loaded, *)
(* serving the workspace API: mocks are created in workspaces, toggled,    *)
(* deleted one by one and by workspace.                                    *)
(***************************************************************************)
WorkspaceFiles     == {"api", "echo"}
WorkspaceProtocols == {"tcp"}

InitWorkspace ==
    /\ mocks = loadMocksFromDirectory([f \in WorkspaceFiles |-> DashFiles[f]])
    /\ lastStart = NoStart
    /\ mockStore = NewMockStore /\ apiResp = NoApi
    /\ ValIdle /\ PipeIdle /\ HttpIdle /\ LifeIdle /\ SftpIdle /\ RegIdle /\ LoadIdle /\ ImportIdle /\ FuncIdle /\ LockIdle

NextWorkspace ==
    \/ \E userID \in Workspaces, nanos \in Nanos,
          pr \in WorkspaceProtocols, po \in DashPorts :
          handleCreateUserMock(userID, nanos, pr, po)
    \/ \E id \in UserIDs \cup WorkspaceFiles, envOK \in BOOLEAN :
          handleToggleMock(id, envOK)
    \/ \E userID \in Workspaces, mockID \in UserIDs \cup WorkspaceFiles :
          handleUserMockDelete(userID, mockID)
    \/ \E userID \in Workspaces : handleDeleteWorkspace(userID)

SpecWorkspace == InitWorkspace /\ [][NextWorkspace]_vars

\* C3: every definition passed to a protocol handler's Start satisfies
\* Validate, whether it was loaded from a file or generated by the dashboard.
C3_StartedDefinitionsValid ==
    lastStart # NoStart => Validate(lastStart.def) = NoError

(***************************************************************************)
(* SpecLife: one handler of each protocol through Start, its accept loop,  *)
(* connections and Stop.                                                   *)
(***************************************************************************)
LifeKinds   == {"http", "tcp", "ws", "sftp"}
MaxInflight == 1
MaxAcceptErrs == 1

\* One handler and its serving goroutine.
\*   startRet  "none" before Start returned, NoError, or "err"
\*   bind      "none", "pending" (goroutine not yet at Listen), "ok", "failed"
\*   listener  "none", "open", "closed"
\*   loop      "none", "running", "ended": the accept loop
\*   stopRet   "none", "pending" (Shutdown waiting), NoError
\*   inflight  connections accepted and not yet finished
\*   late      a connection was accepted after Stop returned
\*   forced    Stop closed a connection that was in flight
\*   acceptErrs  Accept errors seen by the loop while the listener was open
Handler(startRet, bind, listener, loop, stopRet, inflight, late, forced, acceptErrs) ==
    [startRet |-> startRet, bind |-> bind, listener |-> listener, loop |-> loop,
     stopRet |-> stopRet, inflight |-> inflight, late |-> late, forced |-> forced,
     acceptErrs |-> acceptErrs]

NewHandler == Handler("none", "none", "none", "none", "none", 0, FALSE, FALSE, 0)

\* The definition the HTTP handler is started with.
LifeHttpDef == DashFiles["api"].def

LifeFrame ==
    UNCHANGED <<valVars, dashVars, pDef, pKind, conns, httpVars, sftpVars, regVars, loadVars, importVars, funcVars, lockVars>>

InitLife ==
    /\ lifeH = [k \in LifeKinds |-> NewHandler]
    /\ defaultMux = {}
    /\ ValIdle /\ DashIdle /\ PipeIdle /\ HttpIdle /\ SftpIdle /\ RegIdle /\ LoadIdle /\ ImportIdle /\ FuncIdle /\ LockIdle

\* TCPHandler.Start: net.Listen, then the accept loop in a goroutine.
TCPStart(bindOK) ==
    /\ procUp /\ lifeH["tcp"].startRet = "none"
    /\ lifeH' = [lifeH EXCEPT !["tcp"] =
          IF bindOK
          THEN [@ EXCEPT !.startRet = NoError, !.bind = "ok",
                         !.listener = "open", !.loop = "running"]
          ELSE [@ EXCEPT !.startRet = "err", !.bind = "failed"]]
    /\ UNCHANGED <<procUp, defaultMux>> /\ LifeFrame

\* SFTPHandler.Start: host key, files, net.Listen, acceptConnections.
SFTPStart(keyOK, bindOK) ==
    /\ procUp /\ lifeH["sftp"].startRet = "none"
    /\ lifeH' = [lifeH EXCEPT !["sftp"] =
          IF ~keyOK THEN [@ EXCEPT !.startRet = "err"]
          ELSE IF bindOK
          THEN [@ EXCEPT !.startRet = NoError, !.bind = "ok",
                         !.listener = "open", !.loop = "running"]
          ELSE [@ EXCEPT !.startRet = "err", !.bind = "failed"]]
    /\ UNCHANGED <<procUp, defaultMux>> /\ LifeFrame

\* HTTPHandler.Start: a bind failure reaches errChan within the grace window.
HTTPStart_Life(bindOK) ==
    /\ procUp /\ lifeH["http"].startRet = "none"
    /\ lifeH' = [lifeH EXCEPT !["http"] =
          IF HTTPHandlerStart(LifeHttpDef, bindOK).ret = NoError
          THEN [@ EXCEPT !.startRet = NoError, !.bind = "ok",
                         !.listener = "open", !.loop = "running"]
          ELSE [@ EXCEPT !.startRet = "err", !.bind = "failed"]]
    /\ UNCHANGED <<procUp, defaultMux>> /\ LifeFrame

\* WSHandler.Start: registers "/" on the default mux, leaves ListenAndServe
\* to a goroutine and returns nil.
WSStart ==
    /\ procUp /\ lifeH["ws"].startRet = "none"
    /\ PathRoot \notin defaultMux
    /\ defaultMux' = defaultMux \cup {PathRoot}
    /\ lifeH' = [lifeH EXCEPT !["ws"] =
          [@ EXCEPT !.startRet = NoError, !.bind = "pending"]]
    /\ UNCHANGED procUp /\ LifeFrame

\* The goroutine of WSHandler.Start: http.ListenAndServe, and logger.Fatal
\* when it returns an error.
WSListen(bindOK) ==
    /\ procUp /\ lifeH["ws"].bind = "pending"
    /\ lifeH' = [lifeH EXCEPT !["ws"] =
          IF bindOK
          THEN [@ EXCEPT !.bind = "ok", !.listener = "open", !.loop = "running"]
          ELSE [@ EXCEPT !.bind = "failed"]]
    /\ procUp' = bindOK
    /\ UNCHANGED defaultMux /\ LifeFrame

\* The accept loop of k takes a connection.
Accept(k) ==
    /\ procUp
    /\ lifeH[k].listener = "open" /\ lifeH[k].loop = "running"
    /\ lifeH[k].inflight < MaxInflight
    /\ lifeH' = [lifeH EXCEPT ![k] =
          [@ EXCEPT !.inflight = @ + 1,
                    !.late = @ \/ lifeH[k].stopRet = NoError]]
    /\ UNCHANGED <<procUp, defaultMux>> /\ LifeFrame

\* A connection of k ends; a pending Shutdown returns once none is left.
Finish(k) ==
    /\ procUp
    /\ lifeH[k].inflight > 0
    /\ lifeH' = [lifeH EXCEPT ![k] =
          [@ EXCEPT !.inflight = @ - 1,
                    !.stopRet = IF @ = "pending" /\ lifeH[k].inflight = 1
                                THEN NoError ELSE @]]
    /\ UNCHANGED <<procUp, defaultMux>> /\ LifeFrame

\* Accept fails on an open listener: SFTP's acceptConnections logs the
\* error and returns.
SFTPAcceptError ==
    /\ procUp
    /\ lifeH["sftp"].listener = "open" /\ lifeH["sftp"].loop = "running"
    /\ lifeH["sftp"].acceptErrs < MaxAcceptErrs
    /\ lifeH' = [lifeH EXCEPT !["sftp"] =
          [@ EXCEPT !.loop = "ended", !.acceptErrs = @ + 1]]
    /\ UNCHANGED <<procUp, defaultMux>> /\ LifeFrame

\* Accept fails on an open listener: the TCP loop logs the error and
\* continues.
TCPAcceptError ==
    /\ procUp
    /\ lifeH["tcp"].listener = "open" /\ lifeH["tcp"].loop = "running"
    /\ lifeH["tcp"].acceptErrs < MaxAcceptErrs
    /\ lifeH' = [lifeH EXCEPT !["tcp"] = [@ EXCEPT !.acceptErrs = @ + 1]]
    /\ UNCHANGED <<procUp, defaultMux>> /\ LifeFrame

\* Accept fails because the listener was closed: the loop of k returns.
LoopExit(k) ==
    /\ procUp
    /\ lifeH[k].listener = "closed" /\ lifeH[k].loop = "running"
    /\ lifeH' = [lifeH EXCEPT ![k] = [@ EXCEPT !.loop = "ended"]]
    /\ UNCHANGED <<procUp, defaultMux>> /\ LifeFrame

\* TCPHandler.Stop and SFTPHandler.Stop: close the listener.
CloseStop(k) ==
    /\ procUp /\ k \in {"tcp", "sftp"}
    /\ lifeH[k].startRet = NoError /\ lifeH[k].stopRet = "none"
    /\ lifeH' = [lifeH EXCEPT ![k] =
          [@ EXCEPT !.listener = "closed", !.stopRet = NoError]]
    /\ UNCHANGED <<procUp, defaultMux>> /\ LifeFrame

\* HTTPHandler.Stop: Shutdown closes the listener and waits for the
\* connections in flight.
HTTPStop ==
    /\ procUp
    /\ lifeH["http"].startRet = NoError /\ lifeH["http"].stopRet = "none"
    /\ lifeH' = [lifeH EXCEPT !["http"] =
          [@ EXCEPT !.listener = "closed",
                    !.stopRet = IF lifeH["http"].inflight = 0
                                THEN NoError ELSE "pending"]]
    /\ UNCHANGED <<procUp, defaultMux>> /\ LifeFrame

\* HTTPHandler.Stop: the five seconds pass and server.Close ends the
\* connections still in flight.
HTTPStopTimeout ==
    /\ procUp
    /\ lifeH["http"].stopRet = "pending"
    /\ lifeH' = [lifeH EXCEPT !["http"] =
          [@ EXCEPT !.inflight = 0, !.forced = TRUE, !.stopRet = NoError]]
    /\ UNCHANGED <<procUp, defaultMux>> /\ LifeFrame

\* WSHandler.Stop: returns nil and does nothing else.
WSStop ==
    /\ procUp
    /\ lifeH["ws"].startRet = NoError /\ lifeH["ws"].stopRet = "none"
    /\ lifeH' = [lifeH EXCEPT !["ws"] = [@ EXCEPT !.stopRet = NoError]]
    /\ UNCHANGED <<procUp, defaultMux>> /\ LifeFrame

NextLife ==
    \/ \E b \in BOOLEAN : TCPStart(b)
    \/ \E key \in BOOLEAN, b \in BOOLEAN : SFTPStart(key, b)
    \/ \E b \in BOOLEAN : HTTPStart_Life(b)
    \/ WSStart
    \/ \E b \in BOOLEAN : WSListen(b)
    \/ \E k \in LifeKinds : Accept(k)
    \/ \E k \in LifeKinds : Finish(k)
    \/ SFTPAcceptError
    \/ TCPAcceptError
    \/ \E k \in LifeKinds : LoopExit(k)
    \/ \E k \in LifeKinds : CloseStop(k)
    \/ HTTPStop
    \/ HTTPStopTimeout
    \/ WSStop

SpecLife == InitLife /\ [][NextLife]_vars

\* C6: for each handler, when the listen port cannot be bound, Start
\* returns a non-nil error and the process goes on.
C6_BindFailureReturned ==
    \A k \in LifeKinds :
        lifeH[k].bind = "failed" => (lifeH[k].startRet = "err" /\ procUp)

\* C7: for each handler, once Stop has returned on a started handler the
\* listener is not open, the accept loop is not accepting, no connection is
\* accepted afterwards and none in flight was closed by Stop.
C7_StopClosesListener ==
    \A k \in LifeKinds :
        (lifeH[k].startRet = NoError /\ lifeH[k].stopRet = NoError) =>
            /\ lifeH[k].listener # "open"
            /\ ~lifeH[k].late
            /\ ~lifeH[k].forced

\* C14: in the accept loops of the TCP and SFTP handlers only an Accept
\* error of a closed listener ends the loop; after any other Accept error
\* the loop goes on accepting.
C14_OnlyClosedListenerEndsLoop ==
    \A k \in {"tcp", "sftp"} :
        /\ lifeH[k].loop = "ended" => lifeH[k].listener = "closed"
        /\ (lifeH[k].acceptErrs > 0 /\ lifeH[k].listener = "open") =>
              lifeH[k].loop = "running"

C14_Witness ==
    /\ lifeH["tcp"].acceptErrs > 0
    /\ lifeH["tcp"].inflight > 0
    /\ lifeH["tcp"].loop = "running"

(***************************************************************************)
(* SpecSFTP: SFTPHandler.Start writing the file entries, the accept loop,  *)
(* handleConn and the SFTP sessions it serves.                             *)
(*                                                                         *)
(* A file path is the sequence of its names from the filesystem root:      *)
(* "/data/sample.json" is <<"data", "sample.json">>.  The filesystem is a  *)
(* map from the paths that exist to a directory or a file with content.    *)
(***************************************************************************)
MaxFiles == 2      \* longest files list of the definition

Cwd      == <<"app">>                \* the process's working directory
SftpRoot == Cwd \o <<"sftp_root">>   \* h.root = "sftp_root", a relative path

DirNode     == [dir |-> TRUE, content |-> ""]
FileNode(c) == [dir |-> FALSE, content |-> c]

Prefixes(p)  == {SubSeq(p, 1, k) : k \in 0..Len(p)}
Parent(p)    == SubSeq(p, 1, Len(p) - 1)
IsDir(fs, p)  == p \in DOMAIN fs /\ fs[p].dir
IsFile(fs, p) == p \in DOMAIN fs /\ ~fs[p].dir

\* os.MkdirAll: fails when a name on the way is a file.
MkdirAll(fs, p) ==
    IF \E q \in Prefixes(p) : IsFile(fs, q)
    THEN [fs |-> fs, err |-> TRUE]
    ELSE [fs  |-> [q \in DOMAIN fs \cup Prefixes(p) |->
                      IF q \in DOMAIN fs THEN fs[q] ELSE DirNode],
          err |-> FALSE]

\* os.WriteFile: fails on a directory and when the parent is no directory.
WriteFile(fs, p, c) ==
    IF IsDir(fs, p) \/ p = <<>> \/ ~IsDir(fs, Parent(p))
    THEN [fs |-> fs, err |-> TRUE]
    ELSE [fs  |-> [q \in DOMAIN fs \cup {p} |->
                      IF q = p THEN FileNode(c) ELSE fs[q]],
          err |-> FALSE]

\* filepath.Join(h.root, f.Path)
FullPath(f) == SftpRoot \o f.path

\* sftp.NewServer(channel) is given no option: it serves the paths of the
\* operating system, an absolute path from "/" and a relative one from the
\* working directory of the process.
ServedPath(p, abs) == IF abs THEN p ELSE Cwd \o p

\* A served get: the file's content, or a failure.
sftpGet(fs, p, abs) ==
    IF IsFile(fs, ServedPath(p, abs))
    THEN [ok |-> TRUE, content |-> fs[ServedPath(p, abs)].content]
    ELSE [ok |-> FALSE, content |-> ""]

\* A channel request: its type and payload.  A subsystem payload is four
\* length bytes followed by the subsystem name (one token here).
ChanRequest(type, payload) == [type |-> type, payload |-> payload]
ReqSftp   == ChanRequest("subsystem", <<0, 0, 0, 4, "sftp">>)
ReqOther  == ChanRequest("subsystem", <<0, 0, 0, 5, "shell">>)
ReqShort  == ChanRequest("subsystem", <<0, 0>>)
ReqEnv    == ChanRequest("env", <<>>)
ChanRequests == {ReqSftp, ReqOther, ReqShort, ReqEnv}

\* req.Payload[4:] panics on a payload shorter than four bytes.
PayloadPanics(req) == req.type = "subsystem" /\ Len(req.payload) < 4
IsSftpRequest(req) ==
    /\ req.type = "subsystem"
    /\ SubSeq(req.payload, 5, Len(req.payload)) = <<"sftp">>

PathWelcome == <<"welcome.txt">>
PathData    == <<"data">>
PathSample  == <<"data", "sample.json">>
SftpPaths   == {PathWelcome, PathData, PathSample}

SftpEntries == {FileEntry(PathWelcome, "hi"), FileEntry(PathData, "d"),
                FileEntry(PathSample, "{}")}
SftpFileLists == SeqsUpTo(SftpEntries, MaxFiles) \ {<<>>}

\* The filesystem before Start: the working directory only; with a file
\* named sftp_root in it; with a file /welcome.txt of the host.
BaseFS    == [q \in Prefixes(Cwd) |-> DirNode]
InitialFS == {BaseFS,
              WriteFile(BaseFS, SftpRoot, "x").fs,
              WriteFile(BaseFS, PathWelcome, "host").fs}

SftpConns == {1, 2}

\* A served file operation and its result (conn 0: none yet).
FileOp(conn, op, path, abs, ok, content) ==
    [conn |-> conn, op |-> op, path |-> path, abs |-> abs, ok |-> ok,
     content |-> content]
NoOp == FileOp(0, "none", <<>>, FALSE, FALSE, "")

\* One connection's handling: "none", "accepted" (handleConn started),
\* "ssh" (handshake done), "chan" (session channel accepted, its requests
\* being read), "sftp" (server.Serve running), "recovered", "panicked",
\* "closed".
NewSess == "none"

InitSFTP ==
    /\ \E files \in SftpFileLists, fs \in InitialFS :
          sftpS = [files |-> files, pc |-> "new", next |-> 1, written |-> {},
                   fs |-> fs, listener |-> "none",
                   sess |-> [c \in SftpConns |-> NewSess],
                   last |-> NoOp, uploaded |-> EmptyMap]
    /\ ValIdle /\ DashIdle /\ PipeIdle /\ HttpIdle /\ LifeIdle /\ RegIdle /\ LoadIdle /\ ImportIdle /\ FuncIdle /\ LockIdle

SftpFrame ==
    UNCHANGED <<valVars, dashVars, pDef, pKind, conns, httpVars, lifeVars, regVars, loadVars, importVars, funcVars, lockVars>>

\* SFTPHandler.Start up to the file loop: the host key, then MkdirAll(root).
SFTPStartPrepare(keyOK) ==
    /\ procUp /\ sftpS.pc = "new"
    /\ LET mk == MkdirAll(sftpS.fs, SftpRoot)
       IN  sftpS' = IF ~keyOK \/ mk.err
                    THEN [sftpS EXCEPT !.pc = "failed"]
                    ELSE [sftpS EXCEPT !.pc = "files", !.fs = mk.fs]
    /\ UNCHANGED procUp /\ SftpFrame

\* One turn of the loop over def.Files: both errors are logged and dropped.
SFTPStartWrite ==
    /\ procUp /\ sftpS.pc = "files" /\ sftpS.next <= Len(sftpS.files)
    /\ LET f  == sftpS.files[sftpS.next]
           mk == MkdirAll(sftpS.fs, Parent(FullPath(f)))
           wr == WriteFile(mk.fs, FullPath(f), f.content)
       IN  sftpS' = [sftpS EXCEPT
                       !.fs = wr.fs,
                       !.next = @ + 1,
                       !.written = IF wr.err THEN @ ELSE @ \cup {sftpS.next}]
    /\ UNCHANGED procUp /\ SftpFrame

\* The end of Start: net.Listen, then the accept loop's goroutine.
SFTPStartListen(bindOK) ==
    /\ procUp /\ sftpS.pc = "files" /\ sftpS.next > Len(sftpS.files)
    /\ sftpS' = IF bindOK
                THEN [sftpS EXCEPT !.pc = "started", !.listener = "open"]
                ELSE [sftpS EXCEPT !.pc = "failed"]
    /\ UNCHANGED procUp /\ SftpFrame

\* acceptConnections: go h.handleConn(conn).
SFTPAccept(c) ==
    /\ procUp /\ sftpS.listener = "open" /\ sftpS.sess[c] = "none"
    /\ sftpS' = [sftpS EXCEPT !.sess[c] = "accepted"]
    /\ UNCHANGED procUp /\ SftpFrame

\* handleConn: ssh.NewServerConn.
Handshake(c, ok) ==
    /\ procUp /\ sftpS.sess[c] = "accepted"
    /\ sftpS' = [sftpS EXCEPT !.sess[c] = IF ok THEN "ssh" ELSE "closed"]
    /\ UNCHANGED procUp /\ SftpFrame

\* A panic in handleConn's own goroutine: its deferred recover logs it.
HandleConnPanic(c) ==
    /\ procUp /\ sftpS.sess[c] \in {"accepted", "ssh"}
    /\ sftpS' = [sftpS EXCEPT !.sess[c] = "recovered"]
    /\ UNCHANGED procUp /\ SftpFrame

\* handleConn's loop over chans: a session channel is accepted and a
\* goroutine reads its requests; any other type is rejected.
NewChannel(c, type) ==
    /\ procUp /\ sftpS.sess[c] = "ssh"
    /\ sftpS' = IF type = "session"
                THEN [sftpS EXCEPT !.sess[c] = "chan"]
                ELSE sftpS
    /\ UNCHANGED procUp /\ SftpFrame

\* The goroutine over requests: it has no recover, so the panic of
\* req.Payload[4:] ends the process.
ChannelRequest(c, req) ==
    /\ procUp /\ sftpS.sess[c] = "chan"
    /\ IF PayloadPanics(req)
       THEN /\ procUp' = FALSE
            /\ sftpS' = [sftpS EXCEPT !.sess[c] = "panicked"]
       ELSE /\ procUp' = procUp
            /\ sftpS' = IF IsSftpRequest(req)
                        THEN [sftpS EXCEPT !.sess[c] = "sftp"]
                        ELSE sftpS
    /\ SftpFrame

\* server.Serve: a get.
SftpGet(c, p, abs) ==
    /\ procUp /\ sftpS.sess[c] = "sftp"
    /\ LET r == sftpGet(sftpS.fs, p, abs)
       IN  sftpS' = [sftpS EXCEPT
                       !.last = FileOp(c, "get", p, abs, r.ok, r.content)]
    /\ UNCHANGED procUp /\ SftpFrame

\* server.Serve: a put.
SftpPut(c, p, abs, content) ==
    /\ procUp /\ sftpS.sess[c] = "sftp"
    /\ LET wr == WriteFile(sftpS.fs, ServedPath(p, abs), content)
           key == <<p, abs>>
       IN  sftpS' = [sftpS EXCEPT
                       !.fs = wr.fs,
                       !.uploaded =
                           IF wr.err THEN @
                           ELSE [k \in DOMAIN @ \cup {key} |->
                                    IF k = key THEN content ELSE @[k]],
                       !.last = FileOp(c, "put", p, abs, ~wr.err, content)]
    /\ UNCHANGED procUp /\ SftpFrame

\* Serve returns, channel.Close(): the connection may open a new session.
EndSession(c) ==
    /\ procUp /\ sftpS.sess[c] = "sftp"
    /\ sftpS' = [sftpS EXCEPT !.sess[c] = "ssh"]
    /\ UNCHANGED procUp /\ SftpFrame

\* The client closes the connection: handleConn's loop over chans ends.
Disconnect(c) ==
    /\ procUp /\ sftpS.sess[c] \in {"ssh", "chan"}
    /\ sftpS' = [sftpS EXCEPT !.sess[c] = "closed"]
    /\ UNCHANGED procUp /\ SftpFrame

NextSFTP ==
    \/ \E keyOK \in BOOLEAN : SFTPStartPrepare(keyOK)
    \/ SFTPStartWrite
    \/ \E bindOK \in BOOLEAN : SFTPStartListen(bindOK)
    \/ \E c \in SftpConns : SFTPAccept(c)
    \/ \E c \in SftpConns, ok \in BOOLEAN : Handshake(c, ok)
    \/ \E c \in SftpConns : HandleConnPanic(c)
    \/ \E c \in SftpConns, type \in {"session", "direct-tcpip"} : NewChannel(c, type)
    \/ \E c \in SftpConns, req \in ChanRequests : ChannelRequest(c, req)
    \/ \E c \in SftpConns, p \in SftpPaths, abs \in BOOLEAN : SftpGet(c, p, abs)
    \/ \E c \in SftpConns, abs \in BOOLEAN : SftpPut(c, PathWelcome, abs, "up")
    \/ \E c \in SftpConns : EndSession(c)
    \/ \E c \in SftpConns : Disconnect(c)

SpecSFTP == InitSFTP /\ [][NextSFTP]_vars

\* The entry a get of path p is to return: the last entry of that path.
EntryPaths == {sftpS.files[i].path : i \in 1..Len(sftpS.files)}
LastEntry(p) ==
    sftpS.files[CHOOSE i \in 1..Len(sftpS.files) :
                   /\ sftpS.files[i].path = p
                   /\ \A j \in (i + 1)..Len(sftpS.files) : sftpS.files[j].path # p]

\* C17: in a session of a started SFTP mock, a get of a path that was
\* uploaded with put returns the uploaded content, in the same or a later
\* session, and a get of an entry's path returns that entry's content.
C17_GetReturnsEntryOrUpload ==
    LET l == sftpS.last
    IN  l.op = "get" =>
           IF <<l.path, l.abs>> \in DOMAIN sftpS.uploaded
           THEN l.ok /\ l.content = sftpS.uploaded[<<l.path, l.abs>>]
           ELSE l.path \in EntryPaths =>
                   (l.ok /\ l.content = LastEntry(l.path).content)

C17_Witness ==
    /\ sftpS.written = 1..Len(sftpS.files)
    /\ sftpS.last.op = "get"
    /\ sftpS.last.path \in EntryPaths
    /\ sftpS.sess[sftpS.last.conn] = "sftp"
    /\ sftpS.uploaded = EmptyMap

\* The upload half of C17 alone: what put stored is what get returns.
UploadReadBack ==
    LET l == sftpS.last
    IN  (l.op = "get" /\ <<l.path, l.abs>> \in DOMAIN sftpS.uploaded) =>
           (l.ok /\ l.content = sftpS.uploaded[<<l.path, l.abs>>])

\* An entry is missing while no file with its content is at its place.
Missing(i) ==
    ~(/\ IsFile(sftpS.fs, FullPath(sftpS.files[i]))
      /\ sftpS.fs[FullPath(sftpS.files[i])].content =
            LastEntry(sftpS.files[i].path).content)

\* C18: when Start has returned nil every file entry was written to the
\* backing tree; the listener is bound only after the loop over the
\* entries; no connection is accepted while an entry is missing.
C18_EntriesWrittenBeforeListen ==
    /\ sftpS.pc = "started" =>
          \A i \in 1..Len(sftpS.files) : i \in sftpS.written /\ ~Missing(i)
    /\ sftpS.listener = "open" => sftpS.next > Len(sftpS.files)
    /\ (\E c \in SftpConns : sftpS.sess[c] # "none") =>
          \A i \in 1..Len(sftpS.files) : ~Missing(i)

C18_Witness ==
    /\ sftpS.pc = "started"
    /\ Len(sftpS.files) = MaxFiles
    /\ \E c \in SftpConns : sftpS.sess[c] = "ssh"

\* The ordering half of C18 alone.
ListenAfterWrites == sftpS.listener = "open" => sftpS.next > Len(sftpS.files)

\* C19: a panic in the handling of one SFTP connection, in handleConn or in
\* the goroutine that reads the channel's requests, leaves the process
\* running and the listener accepting.
C19_ConnectionPanicRecovered ==
    (\E c \in SftpConns : sftpS.sess[c] \in {"recovered", "panicked"}) =>
        (procUp /\ sftpS.listener = "open")

C19_Witness ==
    /\ \E c \in SftpConns : sftpS.sess[c] = "recovered"
    /\ \E c \in SftpConns : sftpS.sess[c] = "sftp"
    /\ procUp

(***************************************************************************)
(* SpecRegistry: extensions.Registry filled by Register, and the template  *)
(* runtimes built from it.                                                 *)
(*                                                                         *)
(* A fragment's text is given by what parsing it yields: whether it        *)
(* parses, the output of its text outside {{ define }} blocks (top, "" for *)
(* none) and, per template it defines, that template's output.             *)
(***************************************************************************)
MaxRegs == 3       \* most Register calls followed

Fragment(parses, top, defs) == [parses |-> parses, top |-> top, defs |-> defs]

Extension(name, content, source) ==
    [name |-> name, content |-> content, source |-> source]

\* extensions.NewRegistry, Registry.Register: r.Extensions[name] = ...
NewRegistry == EmptyMap
Register(r, name, content, source) ==
    [k \in DOMAIN r \cup {name} |->
        IF k = name THEN Extension(name, content, source) ELSE r[k]]

\* t.New(ext.Name).Parse(ext.Content) on the template set tmpl (template
\* name -> output): the trees are the defined templates and the text
\* outside them under the extension's name; a tree replaces a template of
\* its name unless the tree is empty and the template exists.
ParseTrees(ext) ==
    LET c == ext.content
    IN  [n \in DOMAIN c.defs \cup {ext.name} |->
            IF n \in DOMAIN c.defs THEN c.defs[n] ELSE c.top]
ParseFails(ext) ==
    \/ ~ext.content.parses
    \/ ext.name \in DOMAIN ext.content.defs /\ ext.content.top # ""
ParseInto(tmpl, ext) ==
    LET trees == ParseTrees(ext)
    IN  [n \in DOMAIN tmpl \cup DOMAIN trees |->
            IF n \in DOMAIN trees /\ ~(trees[n] = "" /\ n \in DOMAIN tmpl)
            THEN trees[n] ELSE tmpl[n]]

\* The orders in which a range over the map r may visit its keys.
RangeOrders(r) ==
    {o \in [1..Cardinality(DOMAIN r) -> DOMAIN r] :
        \A i, j \in DOMAIN o : i # j => o[i] # o[j]}

\* template.NewRuntime: parses the extensions in the order the range over
\* registry.Extensions visits them; the first parse error is returned.
RECURSIVE ParseFrom(_, _, _, _)
ParseFrom(registry, order, i, tmpl) ==
    IF i > Len(order) THEN [err |-> FALSE, tmpl |-> tmpl]
    ELSE IF ParseFails(registry[order[i]]) THEN [err |-> TRUE, tmpl |-> EmptyMap]
    ELSE ParseFrom(registry, order, i + 1, ParseInto(tmpl, registry[order[i]]))
NewRuntime(registry, order) == ParseFrom(registry, order, 1, EmptyMap)

\* Runtime.Render of the text {{ template "name" }}.
RenderTemplateCall(tmpl, name) ==
    IF name \in DOMAIN tmpl THEN [out |-> tmpl[name], err |-> FALSE]
    ELSE [out |-> "", err |-> TRUE]

RegNames == {"same", "other"}
DefSame(out) == Fragment(TRUE, "", [n \in {"same"} |-> out])
Fragments == {DefSame("a"), DefSame("b"),
              Fragment(TRUE, "t", EmptyMap),
              Fragment(TRUE, "t", [n \in {"same"} |-> "c"]),
              Fragment(FALSE, "", EmptyMap)}

\* The last render: the name called, how many Register calls preceded it,
\* whether NewRuntime built a runtime, and Render's result.
Rendered(name, at, built, err, out) ==
    [name |-> name, at |-> at, built |-> built, err |-> err, out |-> out]
NoRender == Rendered("", 0, FALSE, FALSE, "")

\* The runtime kept from the last NewRuntime that succeeded: the number of
\* Register calls its registry had seen, and its template set.
Runtime(ok, at, tmpl) == [ok |-> ok, at |-> at, tmpl |-> tmpl]
NoRuntime == Runtime(FALSE, 0, EmptyMap)

InitRegistry ==
    /\ regS = [exts |-> NewRegistry, log |-> <<>>, rt |-> NoRuntime,
               last |-> NoRender, prev |-> NoRender]
    /\ ValIdle /\ DashIdle /\ PipeIdle /\ HttpIdle /\ LifeIdle /\ SftpIdle
    /\ LoadIdle /\ ImportIdle /\ FuncIdle /\ LockIdle

RegFrame ==
    UNCHANGED <<valVars, dashVars, pipeVars, httpVars, lifeVars, sftpVars, loadVars, importVars, funcVars, lockVars>>

\* registry.Register(name, content, source)
RegisterFragment(name, content) ==
    /\ Len(regS.log) < MaxRegs
    /\ regS' = [regS EXCEPT
                  !.exts = Register(@, name, content, name),
                  !.log = Append(@, [name |-> name, content |-> content])]
    /\ RegFrame

\* template.NewRuntime(ctx, registry), then Render of {{ template "name" }}.
RenderThroughRuntime(name) ==
    /\ \E order \in RangeOrders(regS.exts) :
          LET rt == NewRuntime(regS.exts, order)
              r  == RenderTemplateCall(rt.tmpl, name)
          IN  regS' = [regS EXCEPT
                          !.rt = IF rt.err THEN @
                                 ELSE Runtime(TRUE, Len(regS.log), rt.tmpl),
                          !.prev = regS.last,
                          !.last =
                          IF rt.err
                          THEN Rendered(name, Len(regS.log), FALSE, FALSE, "")
                          ELSE Rendered(name, Len(regS.log), TRUE, r.err, r.out)]
    /\ RegFrame

\* Render of {{ template "name" }} on the runtime already built.
RenderOnSameRuntime(name) ==
    /\ regS.rt.ok
    /\ LET r == RenderTemplateCall(regS.rt.tmpl, name)
       IN  regS' = [regS EXCEPT
                      !.prev = regS.last,
                      !.last = Rendered(name, regS.rt.at, TRUE, r.err, r.out)]
    /\ RegFrame

NextRegistry ==
    \/ \E name \in RegNames, content \in Fragments : RegisterFragment(name, content)
    \/ \E name \in RegNames : RenderThroughRuntime(name)
    \/ \E name \in RegNames : RenderOnSameRuntime(name)

SpecRegistry == InitRegistry /\ [][NextRegistry]_vars

\* The Register calls made under a name, in order.
RegistrationsOf(name) == SelectSeq(regS.log, LAMBDA e : e.name = name)
SecondFragment(name) == RegistrationsOf(name)[Len(RegistrationsOf(name))].content
\* What invoking the name yields in the fragment alone.
FragmentOutput(content, name) ==
    IF name \in DOMAIN content.defs THEN content.defs[name] ELSE content.top

\* C20: once two fragments were registered under one name the registry
\* holds one entry for the name, the second fragment, and a template that
\* invokes the name through a runtime built from the registry renders the
\* second fragment's output.
C20_SecondFragmentWins ==
    \A name \in RegNames :
        Len(RegistrationsOf(name)) >= 2 =>
            /\ name \in DOMAIN regS.exts
            /\ regS.exts[name].content = SecondFragment(name)
            /\ (regS.last.name = name /\ regS.last.at = Len(regS.log)
                    /\ regS.last.built) =>
                  (/\ ~regS.last.err
                   /\ regS.last.out = FragmentOutput(SecondFragment(name), name))

C20_Witness ==
    /\ regS.log = <<[name |-> "same", content |-> DefSame("a")],
                    [name |-> "same", content |-> DefSame("b")]>>
    /\ regS.last = Rendered("same", 2, TRUE, FALSE, "b")

\* The registry half of C20 alone.
SecondFragmentRetained ==
    \A name \in RegNames :
        Len(RegistrationsOf(name)) >= 2 =>
            /\ name \in DOMAIN regS.exts
            /\ regS.exts[name].content = SecondFragment(name)

\* C21: two renders of the same template text against the same registry,
\* on one runtime or on two runtimes built from that registry, give the
\* same result, also when fragments of different sources define a template
\* of the same name.
C21_RenderDeterministic ==
    (/\ regS.prev # NoRender
     /\ regS.last.name = regS.prev.name
     /\ regS.last.at = regS.prev.at) => regS.last = regS.prev

C21_Witness ==
    /\ regS.prev = Rendered("same", 2, TRUE, FALSE, "c")
    /\ regS.last = regS.prev
    /\ DOMAIN regS.exts = RegNames
    /\ regS.rt.at = 2

\* Two renders on one runtime alone.
SameRuntimeDeterministic ==
    (/\ regS.prev # NoRender
     /\ regS.last.name = regS.prev.name
     /\ regS.last.at = regS.prev.at
     /\ regS.rt.at = regS.last.at
     /\ regS.last.built /\ regS.prev.built
     /\ Cardinality(RangeOrders(regS.exts)) = 1) => regS.last = regS.prev

(***************************************************************************)
(* The variables of a message and where the templates find them.           *)
(***************************************************************************)
\* The groups (TLA+ indices, the whole match is 1) that took part in the
\* match of the input; every group of the other patterns takes part.
TookPart(pattern, m) ==
    IF pattern = PatOpt
    THEN {i \in 1..Len(PatOptGroups[m]) : PatOptGroups[m][i] # Nil}
    ELSE 1..Len(pattern.find[m])

\* The named groups that took part, each with its captured text.
ParticipatingBindings(pattern, m) ==
    LET named == {i \in TookPart(pattern, m) : i # 1 /\ pattern.names[i] # ""}
    IN  [k \in {pattern.names[i] : i \in named} |->
            pattern.find[m][CHOOSE i \in named : pattern.names[i] = k]]

\* C22: for a non-empty pattern extractVars binds exactly the named groups
\* that took part in the match, each to its captured text; a group that
\* took no part is absent, and an input that does not match binds nothing.
C22_OnlyParticipatingGroupsBound ==
    \A c \in Conns :
        (/\ conns[c].pc = "conds"
         /\ Deref(pDef.onMessage).match.src # "") =>
            conns[c].vars =
                ParticipatingBindings(Deref(pDef.onMessage).match, conns[c].msg)

C22_Witness ==
    \E c \in Conns :
        /\ conns[c].pc = "conds"
        /\ Deref(pDef.onMessage).match = PatOpt
        /\ conns[c].msg = "ping"
        /\ conns[c].vars = [k \in {"cmd", "rest"} |->
                               IF k = "cmd" THEN "ping" ELSE ""]

\* extractVars on the patterns whose groups all take part.
AllGroupsPatternsExact ==
    \A c \in Conns :
        (/\ conns[c].pc = "conds"
         /\ Deref(pDef.onMessage).match \in {PatCmd, PatAny}) =>
            conns[c].vars =
                ParticipatingBindings(Deref(pDef.onMessage).match, conns[c].msg)

\* C23: in a TCP mock the named groups of match are read at the root of the
\* template data: with the group cmd, the condition {{ eq .cmd "ping" }}
\* and the respond pong, the message ping is answered pong and any other
\* command is answered by the else template {{ .cmd }} with the captured
\* text.
C23_NamedGroupsAtRoot ==
    (pKind = "tcp" /\ pDef.onMessage = Ptr(RootCmdOnMessage)) =>
        \A c \in Conns :
            (conns[c].done /\ RuntimeBuilt /\ conns[c].msg # "") =>
                Written(c) =
                    IF conns[c].msg = "ping"
                    THEN <<[kind |-> "respond", idx |-> 1, text |-> "pong"]>>
                    ELSE <<[kind |-> "else", idx |-> 0, text |-> conns[c].msg]>>

C23_Witness ==
    /\ pKind = "tcp" /\ pDef.onMessage = Ptr(RootCmdOnMessage) /\ RuntimeBuilt
    /\ \E c \in Conns :
          /\ conns[c].done /\ conns[c].msg = "ping"
          /\ conns[c].vars = [k \in {"cmd"} |-> "ping"]
          /\ conns[c].evaluated = <<1>>

\* The same rules reading the group under .input are answered as described.
NamedGroupsUnderInput ==
    (/\ pKind = "tcp"
     /\ pDef.onMessage # Nil
     /\ Deref(pDef.onMessage).match = PatCmd
     /\ Deref(pDef.onMessage).conditions =
            <<OnMessageRule(EqField("input", "cmd", "ping"), Lit("pong"))>>) =>
        \A c \in Conns :
            (conns[c].done /\ RuntimeBuilt /\ conns[c].msg = "ping") =>
                Written(c) = <<[kind |-> "respond", idx |-> 1, text |-> "pong"]>>

\* The template a response write was rendered from.
TemplateOf(w) ==
    IF w.kind = "respond" THEN PipeConds[w.idx].respond
    ELSE Deref(pDef.onMessage).else

\* C24: what the TCP handler sends for a matched condition or for else is
\* the rendered text, followed by one newline when the text is not empty
\* and does not end with one, and nothing more; an empty text sends no
\* byte, and what is sent is empty or ends with a newline.
C24_ResponsesNewlineTerminated ==
    pKind = "tcp" =>
        \A c \in Conns : \A j \in 1..Len(conns[c].writes) :
            LET w == conns[c].writes[j]
            IN  w.kind \in {"respond", "else"} =>
                  /\ w.text = Render(TemplateOf(w), PipeCtx(c)).out
                  /\ WireBytes(w) =
                        IF w.text = "" THEN <<>>
                        ELSE IF w.text \in NewlineEnded THEN <<w.text>>
                        ELSE <<w.text, "\n">>

\* Each shape was sent: a text with its newline, a text given one, no byte.
C24_Witness ==
    /\ pKind = "tcp"
    /\ \E c \in Conns :
          /\ Len(conns[c].writes) = 1
          /\ conns[c].writes[1].kind = "respond"
          /\ WireBytes(conns[c].writes[1]) = <<"ready\n">>
    /\ \E c \in Conns :
          /\ Len(conns[c].writes) = 1
          /\ conns[c].writes[1].kind = "respond"
          /\ WireBytes(conns[c].writes[1]) = <<>>

(***************************************************************************)
(* SpecLoad: LoadMockFromFile applied to one path: unreadable, a text that *)
(* does not unmarshal, or the text of a definition of any shape.           *)
(***************************************************************************)
LoadFiles ==
    {Unreadable} \cup {File(parses, def) : parses \in BOOLEAN, def \in ValDefs}

NotLoaded == [def |-> Nil, err |-> "pending"]

InitLoad ==
    /\ \E file \in LoadFiles : ldS = [file |-> file, ret |-> NotLoaded]
    /\ ValIdle /\ DashIdle /\ PipeIdle /\ HttpIdle /\ LifeIdle /\ SftpIdle /\ RegIdle
    /\ ImportIdle /\ FuncIdle /\ LockIdle

CallLoadMockFromFile ==
    /\ ldS.ret = NotLoaded
    /\ ldS' = [ldS EXCEPT !.ret = LoadMockFromFile(ldS.file)]
    /\ UNCHANGED <<valVars, dashVars, pipeVars, httpVars, lifeVars, sftpVars, regVars, importVars, funcVars, lockVars>>

NextLoad == CallLoadMockFromFile

SpecLoad == InitLoad /\ [][NextLoad]_vars

\* C25: LoadMockFromFile returns a nil definition and an error on a read
\* error, a parse error and a validation error; a definition it returns is
\* the file's, comes with no error and satisfies Validate.
C25_LoadedDefinitionsValidated ==
    ldS.ret # NotLoaded =>
        /\ (\/ ~ldS.file.readable
            \/ ~ldS.file.parses
            \/ Validate(ldS.file.def) # NoError) =>
                (ldS.ret.def = Nil /\ ldS.ret.err # NoError)
        /\ ldS.ret.def # Nil =>
                /\ ldS.ret.err = NoError
                /\ Deref(ldS.ret.def) = ldS.file.def
                /\ Validate(Deref(ldS.ret.def)) = NoError
        /\ ldS.ret.def = Nil => ldS.ret.err # NoError

C25_Witness ==
    /\ ldS.file.readable /\ ldS.file.parses
    /\ ldS.file.def.protocol = "sftp"
    /\ Validate(ldS.file.def) = ErrSFTPCreds
    /\ ldS.ret = [def |-> Nil, err |-> "schema validation failed"]

(***************************************************************************)
(* Imports that fail to load (SpecHTTP).                                   *)
(***************************************************************************)
\* The imports of the definition that load, in order.
LoadedImports == SelectSeq(hDef.import, LAMBDA src : ~LoadKurof(src).err)
SomeImportFails == \E i \in 1..Len(hDef.import) : LoadKurof(hDef.import[i]).err
\* The definition without the imports that fail to load.
WithoutFailedImports == [hDef EXCEPT !.import = LoadedImports]

\* C26: the registry Start builds holds exactly the imports that loaded,
\* each with its content; an import that fails to load changes nothing
\* else: Start ends as it does without that import, so the mock is serving
\* unless something else stops it, and requests are answered as without it.
C26_FailedImportSkipped ==
    hSrv.phase # "new" =>
        /\ DOMAIN hSrv.registry =
              {LoadedImports[i] : i \in 1..Len(LoadedImports)}
        /\ \A src \in DOMAIN hSrv.registry :
              hSrv.registry[src] = LoadKurof(src).content
        /\ \E bindOK \in BOOLEAN :
              /\ hSrv = HTTPHandlerStart(hDef, bindOK)
              /\ hSrv = HTTPHandlerStart(WithoutFailedImports, bindOK)
        /\ (/\ SomeImportFails
            /\ \A src \in DOMAIN hSrv.registry : LoadKurof(src).content.parses
            /\ Validate(hDef) = NoError
            /\ hDef.context # Nil
            /\ ~RegistrationPanics(hDef, HttpVariables)) =>
              /\ hSrv.phase = "serving" \/ hSrv.ret = "failed to start HTTP server"
              /\ Answered =>
                    /\ hResp.by # "runtimeError"
                    /\ hResp = ServeHTTP(WithoutFailedImports,
                                         HTTPHandlerStart(WithoutFailedImports, TRUE),
                                         Request(hResp.method, hResp.path, hResp.json))

C26_Witness ==
    /\ hDef.import = <<SrcGood, SrcMissing>>
    /\ DOMAIN hSrv.registry = {SrcGood}
    /\ hSrv.phase = "serving"
    /\ hResp.by = "route" /\ hResp.status = 200

(***************************************************************************)
(* Deleting mocks and workspaces (SpecWorkspace).                          *)
(***************************************************************************)
\* The mock was created in workspace u: its saved metadata carries UserID u.
CreatedIn(id, u) == id \in DOMAIN mockStore.saved /\ mockStore.saved[id] = u
\* This step removes the mock from Server.mocks, or stops it.
RemovedOrStopped(id) ==
    \/ id \notin DOMAIN mocks'
    \/ mocks[id].running /\ ~mocks'[id].running
\* Every user mock in Server.mocks has its metadata on disk.
RuntimeUserMocksSaved == DOMAIN mocks \cap UserIDs \subseteq DOMAIN mockStore.saved

\* C27: a DELETE of a mock through workspace u removes or stops only a
\* mock created in u, whatever the two workspace names are; for a loaded
\* example the answer is 403 and Server.mocks stays as it is.
C27_DeleteOnlyOwnMocks ==
    [][apiResp'.op = "DELETE mock" =>
          /\ \A id \in DOMAIN mocks :
                RemovedOrStopped(id) => CreatedIn(id, apiResp'.userID)
          /\ apiResp'.mockID \in DOMAIN mocks \ DOMAIN mockStore.saved =>
                apiResp'.status = 403 /\ mocks' = mocks]_vars

\* A mock of qa_eu has been deleted through qa: it is gone from
\* Server.mocks while its files are still in qa_eu's directory.
C27_Witness ==
    /\ apiResp = ApiResp("DELETE mock", "qa", UserMockID("qa_eu", "1"), 200)
    /\ UserMockID("qa_eu", "1") \notin DOMAIN mocks
    /\ CreatedIn(UserMockID("qa_eu", "1"), "qa_eu")

\* An example is refused and kept.
ExampleDeleteRefused ==
    [][apiResp'.op = "DELETE mock" /\ apiResp'.mockID \in WorkspaceFiles =>
          apiResp'.status = 403 /\ mocks' = mocks]_vars

\* C28: deleting workspace u removes from Server.mocks exactly the mocks
\* created in u and leaves every other mock as it was; for the workspace
\* default the request is refused and nothing changes.
C28_WorkspaceDeleteExact ==
    [][apiResp'.op = "DELETE workspace" =>
          IF apiResp'.userID = "default"
          THEN apiResp'.status >= 400 /\ mocks' = mocks /\ mockStore' = mockStore
          ELSE apiResp'.status = 200 =>
                  /\ DOMAIN mocks' =
                        {id \in DOMAIN mocks : ~CreatedIn(id, apiResp'.userID)}
                  /\ \A id \in DOMAIN mocks' : mocks'[id] = mocks[id]]_vars

\* Workspace qa has been deleted and a mock of qa_eu went with it.
C28_Witness ==
    /\ apiResp = ApiResp("DELETE workspace", "qa", "", 200)
    /\ UserMockID("qa_eu", "1") \notin DOMAIN mocks
    /\ CreatedIn(UserMockID("qa_eu", "1"), "qa_eu")
    /\ UserMockID("qa", "1") \notin DOMAIN mockStore.saved

\* Deleting a workspace keeps the examples and refuses default.
WorkspaceDeleteKeepsExamples ==
    [][apiResp'.op = "DELETE workspace" =>
          /\ \A id \in DOMAIN mocks \ UserIDs :
                id \in DOMAIN mocks' /\ mocks'[id] = mocks[id]
          /\ apiResp'.userID = "default" =>
                apiResp'.status = 400 /\ mocks' = mocks /\ mockStore' = mockStore]_vars

(***************************************************************************)
(* SpecImports: one started mock whose imported sources are edited on disk *)
(* while it runs.  HTTPHandler.Start and WSHandler.Start build the         *)
(* registry and their request closures capture it; TCPHandler.Start builds *)
(* none, handleConnection calls loadExtensions for every connection.       *)
(***************************************************************************)
MaxEdits  == 2
MaxServed == 2
ImportKinds    == {"http", "ws", "tcp"}
SourceContents == {"good", "broken", "missing"}

\* What the sources hold before any edit: as LoadKurof reads them.
InitialDisk ==
    [src \in Sources |->
        IF LoadKurof(src).err THEN "missing"
        ELSE IF LoadKurof(src).content.parses THEN "good" ELSE "broken"]

\* extensions.LoadKurof reading the sources as they are now.
ReadKurof(disk, src) ==
    [content |-> [parses |-> disk[src] = "good"], err |-> disk[src] = "missing"]

\* runtime.loadExtensions over the sources as they are now.
loadExtensionsFrom(disk, imports) ==
    [src \in {imports[i] : i \in {j \in 1..Len(imports) :
                                    ~ReadKurof(disk, imports[j]).err}}
        |-> ReadKurof(disk, src).content]

InitImports ==
    /\ \E kind \in ImportKinds, imports \in HttpImports :
          impS = [kind |-> kind, imports |-> imports, disk |-> InitialDisk,
                  started |-> FALSE, registry |-> EmptyMap,
                  atStart |-> InitialDisk, used |-> Nil,
                  served |-> 0, edits |-> 0]
    /\ ValIdle /\ DashIdle /\ PipeIdle /\ HttpIdle /\ LifeIdle /\ SftpIdle /\ RegIdle /\ LoadIdle
    /\ FuncIdle /\ LockIdle

ImportFrame ==
    UNCHANGED <<valVars, dashVars, pipeVars, httpVars, lifeVars, sftpVars,
                regVars, loadVars, funcVars, lockVars>>

\* Start of the handler (http.go, lines 31-41; ws.go, line 32; tcp.go,
\* lines 25-53).
ImportStart ==
    /\ ~impS.started
    /\ impS' = [impS EXCEPT
                  !.started = TRUE,
                  !.atStart = impS.disk,
                  !.registry = IF impS.kind \in {"http", "ws"}
                               THEN loadExtensionsFrom(impS.disk, impS.imports)
                               ELSE EmptyMap]
    /\ ImportFrame

\* Somebody rewrites, breaks or removes an imported file.
EditSource(src, to) ==
    /\ impS.edits < MaxEdits
    /\ impS.disk[src] # to
    /\ impS' = [impS EXCEPT !.disk[src] = to, !.edits = @ + 1]
    /\ ImportFrame

\* One request (http.go, line 187), one message (ws.go, line 55) or one
\* connection (tcp.go, lines 92-95): the registry NewRuntime is given.
ServeWithRegistry ==
    /\ impS.started
    /\ impS.served < MaxServed
    /\ impS' = [impS EXCEPT
                  !.served = @ + 1,
                  !.used = Ptr(IF impS.kind = "tcp"
                               THEN loadExtensionsFrom(impS.disk, impS.imports)
                               ELSE impS.registry)]
    /\ ImportFrame

NextImports ==
    \/ ImportStart
    \/ \E src \in Sources, to \in SourceContents : EditSource(src, to)
    \/ ServeWithRegistry

SpecImports == InitImports /\ [][NextImports]_vars

\* The registry loadExtensions gave, or would have given, at Start.
RegistryAtStart == loadExtensionsFrom(impS.atStart, impS.imports)

\* C29: whatever is served after Start is rendered against the registry as
\* it was built at Start, for HTTP, WebSocket and TCP mocks alike.
C29_RegistrySnapshotAtStart ==
    impS.used # Nil => Deref(impS.used) = RegistryAtStart

\* A TCP connection served after an imported file was edited.
C29_Witness ==
    /\ impS.kind = "tcp" /\ impS.started /\ impS.used # Nil
    /\ impS.disk # impS.atStart
    /\ Deref(impS.used) = loadExtensionsFrom(impS.disk, impS.imports)
    /\ Deref(impS.used) # RegistryAtStart

\* HTTP and WebSocket mocks keep the registry of Start.
SnapshotKeptByHTTPAndWS ==
    (impS.kind \in {"http", "ws"} /\ impS.used # Nil) =>
        Deref(impS.used) = RegistryAtStart

\* Before any edit the two readings of the sources agree.
InitialDiskAsLoadKurof ==
    \A imports \in HttpImports :
        loadExtensionsFrom(InitialDisk, imports) = loadExtensions(imports)

(***************************************************************************)
(* The status of a request whose handling failed (SpecHTTP).               *)
(***************************************************************************)
\* The body template of the route that answered did not render.
BodyRenderFailed ==
    /\ hResp.route # Nil /\ hResp.by = "route"
    /\ Render(Deref(hResp.route).body, RespCtx).err
\* NewRuntime failed for the request.
RuntimeFailed == hResp.by = "runtimeError"

\* C30: a request whose body template fails to render, or for which the
\* runtime cannot be built, is answered with a 4xx or 5xx status.
C30_FailureStatusIsError ==
    (Answered /\ (BodyRenderFailed \/ RuntimeFailed)) =>
        hResp.status >= 400 /\ hResp.status <= 599

\* The generic error body sent under the route's own status 200.
C30_Witness ==
    /\ Answered /\ BodyRenderFailed
    /\ hResp.body = GenericErrorBody
    /\ hResp.status = Deref(hResp.route).status
    /\ hResp.status = 200

\* A runtime that cannot be built is answered with 500.
RuntimeFailureIs500 == (Answered /\ RuntimeFailed) => hResp.status = 500

(***************************************************************************)
(* Connections served concurrently (SpecPipe).                             *)
(***************************************************************************)
\* The variables and the template data the message of c gives by itself.
OwnVars(c) == extractVars(conns[c].msg, Deref(pDef.onMessage).match).vars
OwnCtx(c) == MessageContext(pDef, OwnVars(c))

\* What connection c holds and what was written on it follows from its own
\* message, the definition and the registry.
OwnResponse(c) ==
    /\ conns[c].vars # EmptyMap => conns[c].vars = OwnVars(c)
    /\ \A j \in 1..Len(conns[c].writes) :
          LET w == conns[c].writes[j]
          IN  CASE w.kind = "respond" ->
                      /\ Matched(Render(PipeConds[w.idx].if, OwnCtx(c)))
                      /\ w.text = Render(PipeConds[w.idx].respond, OwnCtx(c)).out
                [] w.kind = "else" ->
                      w.text = Render(Deref(pDef.onMessage).else, OwnCtx(c)).out
                [] OTHER ->
                      w.text \in {DiagOnMessageNil, DiagTemplate(pKind)}

\* C31: under every interleaving of the connections of one mock, what is
\* written on a connection is given by that connection's own message, the
\* definition and the registry, whatever the other connections hold.
C31_ConnectionsIsolated == \A c \in Conns : OwnResponse(c)

\* Two connections in flight with different messages: one answered with
\* its own text while the other is between its conditions.
C31_Witness ==
    /\ conns["c1"].done /\ conns["c1"].msg = "ping"
    /\ Len(conns["c1"].writes) = 1
    /\ conns["c1"].writes[1].kind = "respond"
    /\ conns["c1"].writes[1].text = "ping"
    /\ conns["c2"].pc = "conds" /\ conns["c2"].msg = "status"
    /\ conns["c2"].vars # conns["c1"].vars

\* A step of one connection leaves the other connections as they are.
StepsAreLocal ==
    [][\A c \in Conns :
          conns'[c] # conns[c] =>
              \A d \in Conns \ {c} : conns'[d] = conns[d]]_vars

(***************************************************************************)
(* SpecFuncs: the template function `default` (functions.go), called in    *)
(* the two forms the README shows.  A value of the template data is its Go *)
(* type and its text; a missing key or nil is NilValue.                    *)
(***************************************************************************)
Value(t, text) == [t |-> t, text |-> text]
NilValue == Value("nil", "")
Str(text) == Value("string", text)
Int(text) == Value("int", text)
Bool(text) == Value("bool", text)

FuncValues ==
    {NilValue, Str(""), Str("Alice"), Str("Bob"), Str("World"), Str("0"),
     Int("0"), Int("7"), Int("42"), Bool("false"), Bool("true")}
FuncFallbacks ==
    {Str("World"), Str("fallback"), Str("N/A"), Int("1"), Bool("true"), Str("")}

\* reflect.Value.IsZero for the types drawn.
IsZero(v) ==
    \/ v.t = "string" /\ v.text = ""
    \/ v.t = "int" /\ v.text = "0"
    \/ v.t = "bool" /\ v.text = "false"

\* functions.go, safeDefault(value, defaultValue).
safeDefault(value, defaultValue) ==
    IF value = NilValue THEN defaultValue
    ELSE IF value.t = "string" /\ value.text = "" THEN defaultValue
    ELSE IF IsZero(value) THEN defaultValue
    ELSE value

\* {{ default .value "fallback" }}: the arguments in the order written.
DefaultCalled(value, fallback) == safeDefault(value, fallback)

\* {{ .value | default "fallback" }}: text/template passes the piped value
\* as the last argument of the call, after the arguments written.
DefaultPiped(value, fallback) == safeDefault(fallback, value)

NotEvaluated == Value("", "")

InitFuncs ==
    /\ \E value \in FuncValues, fallback \in FuncFallbacks :
          fnS = [value |-> value, fallback |-> fallback,
                 piped |-> NotEvaluated, called |-> NotEvaluated]
    /\ ValIdle /\ DashIdle /\ PipeIdle /\ HttpIdle /\ LifeIdle /\ SftpIdle
    /\ RegIdle /\ LoadIdle /\ ImportIdle /\ LockIdle

FuncFrame ==
    UNCHANGED <<valVars, dashVars, pipeVars, httpVars, lifeVars, sftpVars,
                regVars, loadVars, importVars, lockVars>>

\* Rendering {{ .value | default fallback }}.
RenderPiped ==
    /\ fnS.piped = NotEvaluated
    /\ fnS' = [fnS EXCEPT !.piped = DefaultPiped(fnS.value, fnS.fallback)]
    /\ FuncFrame

\* Rendering {{ default .value fallback }}.
RenderCalled ==
    /\ fnS.called = NotEvaluated
    /\ fnS' = [fnS EXCEPT !.called = DefaultCalled(fnS.value, fnS.fallback)]
    /\ FuncFrame

NextFuncs == RenderPiped \/ RenderCalled

SpecFuncs == InitFuncs /\ [][NextFuncs]_vars

\* The value is missing, nil, empty or zero.
IsEmptyValue(v) == v = NilValue \/ IsZero(v)
\* What `default` is to give for a value and a fallback.
ValueOrFallback == IF IsEmptyValue(fnS.value) THEN fnS.fallback ELSE fnS.value

\* C32: in a pipeline `default` gives the piped value when it is present
\* and not empty and the fallback otherwise, and the call form gives the same
\* for the same value and fallback.
C32_DefaultInPipeline ==
    /\ fnS.piped # NotEvaluated => fnS.piped = ValueOrFallback
    /\ (fnS.piped # NotEvaluated /\ fnS.called # NotEvaluated) =>
          fnS.piped = fnS.called

\* The name is Alice and the pipeline still gives World.
C32_Witness ==
    /\ fnS.value = Str("Alice") /\ fnS.fallback = Str("World")
    /\ fnS.piped = Str("World")
    /\ fnS.called = Str("Alice")

\* The call form gives the value or the fallback.
CallFormGivesValueOrFallback ==
    fnS.called # NotEvaluated => fnS.called = ValueOrFallback

(***************************************************************************)
(* Conditions whose `if` fails to render (SpecPipe).                       *)
(***************************************************************************)
\* The `if` of condition i returns a render error for the message of c.
IfFails(c, i) == Render(PipeConds[i].if, PipeCtx(c)).err

\* C33: a condition whose `if` returns a render error is never selected:
\* its respond is not written, and the conditions after it are evaluated as
\* after one that rendered something other than "true".
C33_FailedConditionNotSelected ==
    \A c \in Conns :
        /\ \A j \in 1..Len(conns[c].writes) :
              conns[c].writes[j].kind = "respond" =>
                  ~IfFails(c, conns[c].writes[j].idx)
        /\ \A i \in 1..Len(conns[c].evaluated) :
              (conns[c].done /\ IfFails(c, i) /\ i < Len(PipeConds)) =>
                  i + 1 <= Len(conns[c].evaluated)

\* The respond of a condition whose `if` wrote "true" and then failed.
C33_Witness ==
    \E c \in Conns :
        /\ conns[c].done
        /\ Len(conns[c].writes) = 1
        /\ conns[c].writes[1].kind = "respond"
        /\ PipeConds[conns[c].writes[1].idx].if = Partial("true")
        /\ conns[c].writes[1].text = "partial"

\* A condition whose `if` does not parse is passed over.
UnparsedConditionNotSelected ==
    \A c \in Conns : \A j \in 1..Len(conns[c].writes) :
        conns[c].writes[j].kind = "respond" =>
            PipeConds[conns[c].writes[j].idx].if # BadTpl

(***************************************************************************)
(* The fields of a mock in Server.mocks (SpecDash).                        *)
(***************************************************************************)
\* C34: after any sequence of API requests every mock is Running exactly
\* when it holds a started handler, and a mock that is not Running has
\* Handler, Context and Cancel unset, also after a toggle that failed.
C34_RunningFieldsConsistent ==
    \A id \in DOMAIN mocks :
        /\ mocks[id].running <=> mocks[id].handler # ""
        /\ ~mocks[id].running => mocks[id].handler = "" /\ ~mocks[id].cancel

\* A mock whose toggle failed: not running, Context and Cancel set.
C34_Witness ==
    \E id \in DOMAIN mocks :
        /\ ~mocks[id].running /\ mocks[id].handler = ""
        /\ mocks[id].cancel
        /\ mocks[id].definition # Nil

\* Running and Handler go together.
RunningIffHandler ==
    \A id \in DOMAIN mocks : mocks[id].running <=> mocks[id].handler # ""

(***************************************************************************)
(* The ports of the running mocks (SpecDash).                              *)
(***************************************************************************)
\* The port the handler of a running mock was started on: Start binds the
\* port of the definition it is given.
ListensOn(id) == Deref(mocks[id].definition).port

\* C35: after any sequence of API requests no two running mocks have the
\* same port, an update of a port included, and the port recorded for a
\* running mock is the port its handler listens on.
C35_RunningPortsDistinct ==
    \A a \in DOMAIN mocks :
        mocks[a].running =>
            /\ \A b \in DOMAIN mocks \ {a} :
                  mocks[b].running => mocks[a].port # mocks[b].port
            /\ mocks[a].port = ListensOn(a)

\* Two running mocks with the same recorded port, one of which listens on
\* another port.
C35_Witness ==
    \E a, b \in DOMAIN mocks :
        /\ a # b /\ mocks[a].running /\ mocks[b].running
        /\ mocks[a].port = mocks[b].port
        /\ ListensOn(a) # mocks[a].port

\* A toggle alone never starts a mock on a port recorded for a running one.
ToggleKeepsPortsDistinct ==
    [][(\A a, b \in DOMAIN mocks :
            (a # b /\ mocks[a].running /\ mocks[b].running) =>
                mocks[a].port # mocks[b].port)
        /\ (\A a \in DOMAIN mocks : mocks'[a].port = mocks[a].port)
        /\ DOMAIN mocks' = DOMAIN mocks
        => (\A a, b \in DOMAIN mocks' :
              (a # b /\ mocks'[a].running /\ mocks'[b].running) =>
                  mocks'[a].port # mocks'[b].port)]_vars

(***************************************************************************)
(* Handler instances started one after another in one process (SpecDash).  *)
(***************************************************************************)
\* How Start of this kind and definition can end in a process that has
\* started no handler before, with the port free or taken.
FirstStartOutcomes(kind, def) ==
    {StartOutcome(kind, def, envOK, {}) : envOK \in BOOLEAN}

\* C36: a handler's Start ends as it would if it were the first handler
\* of the process: handlers started before it, stopped or not, make no
\* difference, for WebSocket handlers as for the others.
C36_HandlersIndependent ==
    lastStart # NoStart =>
        lastStart.outcome \in FirstStartOutcomes(lastStart.kind, lastStart.def)

\* A WebSocket handler whose Start panicked after an earlier WebSocket
\* handler had registered "/".
C36_Witness ==
    /\ lastStart.kind = "ws" /\ lastStart.outcome = "panic"
    /\ PathRoot \in defaultMux
    /\ \A id \in DOMAIN mocks : ~mocks[id].running

\* Handlers other than WebSocket start as the first handler would.
OtherHandlersIndependent ==
    (lastStart # NoStart /\ lastStart.kind # "ws") =>
        lastStart.outcome \in FirstStartOutcomes(lastStart.kind, lastStart.def)

(***************************************************************************)
(* SpecLocks: concurrent dashboard API requests and the Server's two       *)
(* mutexes (web/server.go).  serverMutex is a sync.Mutex, mocksMutex a     *)
(* sync.RWMutex.  A request runs the steps of its handler on one return    *)
(* path: the mutex calls in source order, the reads and writes of          *)
(* s.serverRunning and of s.mocks (the map and the services' fields), and  *)
(* the handler Start/Stop calls made on the way.                           *)
(***************************************************************************)
Step(op, on) == [op |-> op, on |-> on]

\* handleGetMocks: RLock with a deferred RUnlock; the response is built from
\* s.mocks and from s.serverRunning.
handleGetMocksSteps ==
    <<Step("RLock", "mocksMutex"), Step("Read", "mocks"),
      Step("Read", "serverRunning"), Step("RUnlock", "mocksMutex")>>

\* A health handler that read-locks mocksMutex first and takes serverMutex
\* inside it: the opposite nesting of handleToggleServer's.
handleHealthStepsNested ==
    <<Step("RLock", "mocksMutex"), Step("Read", "mocks"),
      Step("Lock", "serverMutex"), Step("Read", "serverRunning"),
      Step("Unlock", "serverMutex"), Step("RUnlock", "mocksMutex")>>

\* handleHealth: the flag is copied under serverMutex, which is released
\* before mocksMutex is read-locked.
handleHealthSteps ==
    <<Step("Lock", "serverMutex"), Step("Read", "serverRunning"),
      Step("Unlock", "serverMutex"),
      Step("RLock", "mocksMutex"), Step("Read", "mocks"),
      Step("RUnlock", "mocksMutex")>>

\* handleAddMock: a payload that does not decode or has an empty name returns
\* before any mutex; otherwise the entry is written between Lock and Unlock.
handleAddMockSteps(path) ==
    IF path = "bad request" THEN <<>>
    ELSE <<Step("Lock", "mocksMutex"), Step("Write", "mocks"),
           Step("Unlock", "mocksMutex")>>

\* handleToggleMock: Lock with a deferred Unlock; every return (not found,
\* no definition, port conflict, unsupported protocol, Start error, done)
\* passes through it.
handleToggleMockSteps(path) ==
    <<Step("Lock", "mocksMutex"), Step("Read", "mocks")>>
    \o (CASE path = "stop"  -> <<Step("Call", "Stop"), Step("Write", "mocks")>>
          [] path = "start" -> <<Step("Write", "mocks"), Step("Call", "Start"),
                                 Step("Write", "mocks")>>
          [] path = "start error" -> <<Step("Write", "mocks"), Step("Call", "Start")>>
          [] path = "unsupported" -> <<Step("Write", "mocks")>>
          [] OTHER -> <<>>)
    \o <<Step("Unlock", "mocksMutex")>>

\* handleToggleServer: a payload that does not decode returns before the
\* Lock; serverMutex is locked with a deferred Unlock, and "stop" takes
\* mocksMutex inside it to stop every running mock.
handleToggleServerSteps(path) ==
    IF path = "bad request" THEN <<>>
    ELSE <<Step("Lock", "serverMutex")>>
         \o (CASE path = "start" -> <<Step("Write", "serverRunning"),
                                      Step("Read", "serverRunning")>>
               [] path = "stop"  -> <<Step("Write", "serverRunning"),
                                      Step("Lock", "mocksMutex"),
                                      Step("Read", "mocks"), Step("Call", "Stop"),
                                      Step("Write", "mocks"),
                                      Step("Unlock", "mocksMutex"),
                                      Step("Read", "serverRunning")>>
               [] OTHER -> <<>>)
         \o <<Step("Unlock", "serverMutex")>>

\* handleUpdateMock: Lock with a deferred Unlock around the lookup and the
\* field assignments.
handleUpdateMockSteps(path) ==
    IF path = "bad request" THEN <<>>
    ELSE <<Step("Lock", "mocksMutex"), Step("Read", "mocks")>>
         \o (IF path = "not found" THEN <<>> ELSE <<Step("Write", "mocks")>>)
         \o <<Step("Unlock", "mocksMutex")>>

\* handleCreateUserMock: the port scan is one critical section, unlocked
\* before the conflict return and after the loop; the insertion is a second
\* one.  A failed SaveMock returns between the two.
handleCreateUserMockSteps(path) ==
    IF path = "bad request" THEN <<>>
    ELSE <<Step("Lock", "mocksMutex"), Step("Read", "mocks"),
           Step("Unlock", "mocksMutex")>>
         \o (IF path = "ok"
             THEN <<Step("Lock", "mocksMutex"), Step("Write", "mocks"),
                    Step("Unlock", "mocksMutex")>>
             ELSE <<>>)

\* handleUserMock: GET touches only the store; PUT updates the runtime mock
\* and DELETE stops and removes it, each between Lock and Unlock.
handleUserMockSteps(path) ==
    CASE path = "put" ->
           <<Step("Lock", "mocksMutex"), Step("Read", "mocks"),
             Step("Write", "mocks"), Step("Unlock", "mocksMutex")>>
      [] path = "delete" ->
           <<Step("Lock", "mocksMutex"), Step("Read", "mocks"),
             Step("Call", "Stop"), Step("Write", "mocks"),
             Step("Unlock", "mocksMutex")>>
      [] OTHER -> <<>>

\* handleDeleteWorkspace: "default" and a missing directory return before
\* the Lock; the removal loop runs between Lock and Unlock.
handleDeleteWorkspaceSteps(path) ==
    IF path = "refused" THEN <<>>
    ELSE <<Step("Lock", "mocksMutex"), Step("Read", "mocks"),
           Step("Call", "Stop"), Step("Write", "mocks"),
           Step("Unlock", "mocksMutex")>>

\* The routes of the dashboard API, each with the return paths that differ
\* in their steps.
HandlerPrograms ==
    {[handler |-> "handleGetMocks", path |-> "ok", steps |-> handleGetMocksSteps],
     [handler |-> "handleHealth", path |-> "ok", steps |-> handleHealthSteps]}
    \cup {[handler |-> "handleAddMock", path |-> p, steps |-> handleAddMockSteps(p)] :
            p \in {"bad request", "ok"}}
    \cup {[handler |-> "handleToggleMock", path |-> p, steps |-> handleToggleMockSteps(p)] :
            p \in {"refused", "stop", "start", "start error", "unsupported"}}
    \cup {[handler |-> "handleToggleServer", path |-> p, steps |-> handleToggleServerSteps(p)] :
            p \in {"bad request", "start", "stop", "invalid action"}}
    \cup {[handler |-> "handleUpdateMock", path |-> p, steps |-> handleUpdateMockSteps(p)] :
            p \in {"bad request", "not found", "ok"}}
    \cup {[handler |-> "handleCreateUserMock", path |-> p,
           steps |-> handleCreateUserMockSteps(p)] :
            p \in {"bad request", "conflict", "save failed", "ok"}}
    \cup {[handler |-> "handleUserMock", path |-> p, steps |-> handleUserMockSteps(p)] :
            p \in {"get", "put", "delete"}}
    \cup {[handler |-> "handleDeleteWorkspace", path |-> p,
           steps |-> handleDeleteWorkspaceSteps(p)] :
            p \in {"refused", "ok"}}

Requests == {"r1", "r2"}
NoRequest == [handler |-> "", path |-> "", steps |-> <<>>]

\* A new Server: both mutexes free, no request in flight.  pc[r] is 0 before
\* request r arrives, the index of its next step while it runs, and one past
\* its last step once the handler has returned.
NewLocks ==
    [serverMutex |-> "",          \* the request holding serverMutex
     writer      |-> "",          \* the request holding mocksMutex for writing
     readers     |-> {},          \* the requests holding mocksMutex for reading
     waiting     |-> {},          \* the requests blocked in mocksMutex.Lock
     prog        |-> [r \in Requests |-> NoRequest],
     pc          |-> [r \in Requests |-> 0]]

Arrived(r)  == lkS.pc[r] > 0
Returned(r) == Arrived(r) /\ lkS.pc[r] > Len(lkS.prog[r].steps)
Running(r)  == Arrived(r) /\ ~Returned(r)
NextStep(r) == lkS.prog[r].steps[lkS.pc[r]]
AtStep(r, op, on) == Running(r) /\ NextStep(r) = Step(op, on)
Advance(r)  == [lkS.pc EXCEPT ![r] = @ + 1]

InitLocks ==
    /\ lkS = NewLocks
    /\ ValIdle /\ DashIdle /\ PipeIdle /\ HttpIdle /\ LifeIdle /\ SftpIdle
    /\ RegIdle /\ LoadIdle /\ ImportIdle /\ FuncIdle

LockFrame ==
    UNCHANGED <<valVars, dashVars, pipeVars, httpVars, lifeVars, sftpVars,
                regVars, loadVars, importVars, funcVars>>

\* net/http starts the handler of a request on its own goroutine.
ServeRequest(r, prog) ==
    /\ ~Arrived(r)
    /\ lkS' = [lkS EXCEPT !.prog[r] = prog, !.pc[r] = 1]
    /\ LockFrame

\* sync.Mutex.Lock: blocks until the mutex is free.
LockServerMutex(r) ==
    /\ AtStep(r, "Lock", "serverMutex")
    /\ lkS.serverMutex = ""
    /\ lkS' = [lkS EXCEPT !.serverMutex = r, !.pc = Advance(r)]
    /\ LockFrame

UnlockServerMutex(r) ==
    /\ AtStep(r, "Unlock", "serverMutex")
    /\ lkS' = [lkS EXCEPT !.serverMutex = "", !.pc = Advance(r)]
    /\ LockFrame

\* sync.RWMutex.Lock: the caller announces itself, which holds back later
\* RLock calls, and proceeds once no writer and no reader holds the mutex.
CallLockMocksMutex(r) ==
    /\ AtStep(r, "Lock", "mocksMutex")
    /\ r \notin lkS.waiting
    /\ lkS' = [lkS EXCEPT !.waiting = @ \cup {r}]
    /\ LockFrame

LockMocksMutex(r) ==
    /\ AtStep(r, "Lock", "mocksMutex")
    /\ r \in lkS.waiting
    /\ lkS.writer = "" /\ lkS.readers = {}
    /\ lkS' = [lkS EXCEPT !.writer = r, !.waiting = @ \ {r}, !.pc = Advance(r)]
    /\ LockFrame

UnlockMocksMutex(r) ==
    /\ AtStep(r, "Unlock", "mocksMutex")
    /\ lkS' = [lkS EXCEPT !.writer = "", !.pc = Advance(r)]
    /\ LockFrame

\* sync.RWMutex.RLock: blocks while a writer holds the mutex or waits for it.
RLockMocksMutex(r) ==
    /\ AtStep(r, "RLock", "mocksMutex")
    /\ lkS.writer = "" /\ lkS.waiting = {}
    /\ lkS' = [lkS EXCEPT !.readers = @ \cup {r}, !.pc = Advance(r)]
    /\ LockFrame

RUnlockMocksMutex(r) ==
    /\ AtStep(r, "RUnlock", "mocksMutex")
    /\ lkS' = [lkS EXCEPT !.readers = @ \ {r}, !.pc = Advance(r)]
    /\ LockFrame

\* One read or write of s.serverRunning or of s.mocks.
Access(r) ==
    /\ Running(r) /\ NextStep(r).op \in {"Read", "Write"}
    /\ lkS' = [lkS EXCEPT !.pc = Advance(r)]
    /\ LockFrame

\* A handler Start or Stop call that returns.
CallReturns(r) ==
    /\ Running(r) /\ NextStep(r).op = "Call"
    /\ lkS' = [lkS EXCEPT !.pc = Advance(r)]
    /\ LockFrame

RequestStep(r) ==
    \/ LockServerMutex(r)
    \/ UnlockServerMutex(r)
    \/ CallLockMocksMutex(r)
    \/ LockMocksMutex(r)
    \/ UnlockMocksMutex(r)
    \/ RLockMocksMutex(r)
    \/ RUnlockMocksMutex(r)
    \/ Access(r)
    \/ CallReturns(r)

NextLocks ==
    \/ \E r \in Requests, prog \in HandlerPrograms : ServeRequest(r, prog)
    \/ \E r \in Requests : LockServerMutex(r)
    \/ \E r \in Requests : UnlockServerMutex(r)
    \/ \E r \in Requests : CallLockMocksMutex(r)
    \/ \E r \in Requests : LockMocksMutex(r)
    \/ \E r \in Requests : UnlockMocksMutex(r)
    \/ \E r \in Requests : RLockMocksMutex(r)
    \/ \E r \in Requests : RUnlockMocksMutex(r)
    \/ \E r \in Requests : Access(r)
    \/ \E r \in Requests : CallReturns(r)

SpecLocks == InitLocks /\ [][NextLocks]_vars

\* The Go scheduler runs every goroutine that can take a step, and a mutex
\* that keeps becoming free is eventually handed to each goroutine blocked on
\* it (sync.Mutex and sync.RWMutex are starvation-free).
SpecLocksFair ==
    /\ SpecLocks
    /\ \A r \in Requests : SF_vars(RequestStep(r))

(***************************************************************************)
(* Mutex discipline of the dashboard handlers (SpecLocks).                 *)
(***************************************************************************)
HoldsServerMutex(r) == lkS.serverMutex = r
HoldsMocksMutex(r)  == lkS.writer = r \/ r \in lkS.readers

\* The mutex that guards what the step touches is held by the request as the
\* step needs it: serverMutex for s.serverRunning; mocksMutex for s.mocks,
\* write-locked for a write.
Guarded(r, step) ==
    CASE step.on = "serverRunning" -> HoldsServerMutex(r)
      [] step.on = "mocks" /\ step.op = "Write" -> lkS.writer = r
      [] step.on = "mocks" /\ step.op = "Read"  -> HoldsMocksMutex(r)
      [] OTHER -> TRUE

AtAccess(r) == Running(r) /\ NextStep(r).op \in {"Read", "Write"}

\* C37: every read and write of s.serverRunning and of s.mocks is made by
\* a request that holds the guarding mutex (serverMutex for serverRunning,
\* mocksMutex for the mocks).
C37_AccessUnderMutex ==
    \A r \in Requests : AtAccess(r) => Guarded(r, NextStep(r))

\* handleGetMocks is about to read s.serverRunning holding only the read
\* lock of mocksMutex while handleToggleServer, holding serverMutex, is about
\* to write it.
C37_Witness ==
    \E r, w \in Requests :
        /\ lkS.prog[r].handler = "handleGetMocks"
        /\ AtStep(r, "Read", "serverRunning") /\ ~HoldsServerMutex(r)
        /\ lkS.prog[w].handler = "handleToggleServer"
        /\ AtStep(w, "Write", "serverRunning") /\ HoldsServerMutex(w)

\* Every access to s.mocks is made under mocksMutex.
MocksUnderMutex ==
    \A r \in Requests :
        (AtAccess(r) /\ NextStep(r).on = "mocks") => Guarded(r, NextStep(r))

\* A request that holds mocksMutex never asks for serverMutex.
LockOrder ==
    \A r \in Requests : HoldsMocksMutex(r) => ~AtStep(r, "Lock", "serverMutex")

\* A handler that has returned holds no mutex and waits for none.
ReleasedOnReturn ==
    \A r \in Requests :
        Returned(r) => /\ ~HoldsServerMutex(r) /\ ~HoldsMocksMutex(r)
                       /\ r \notin lkS.waiting

\* C38: the two mutexes are nested only as serverMutex then mocksMutex,
\* a handler that returned has released every mutex it took, and every
\* request that arrived returns, its Start/Stop calls returning: no
\* interleaving of requests deadlocks.
C38_NoDeadlock ==
    /\ [](LockOrder /\ ReleasedOnReturn)
    /\ \A r \in Requests : Arrived(r) ~> Returned(r)

\* handleToggleServer, holding serverMutex, waits in mocksMutex.Lock while
\* another request holds mocksMutex.
C38_Witness ==
    \E r, o \in Requests :
        /\ lkS.prog[r].handler = "handleToggleServer"
        /\ HoldsServerMutex(r) /\ r \in lkS.waiting
        /\ o # r /\ HoldsMocksMutex(o)

(***************************************************************************)
(* The IDs given to mocks added through the dashboard (SpecInsert).        *)
(***************************************************************************)
\* The step is a POST /api/mocks or a POST /api/user/{userID}/mocks that
\* stores its entry under id.
InsertsUnder(id) ==
    \/ id = CustomID /\ \E pr \in AddProtocols, po \in DashPorts : handleAddMock(pr, po)
    \/ \E userID \in Workspaces, nanos \in Nanos, pr \in DashProtocols, po \in DashPorts :
          id = UserMockID(userID, nanos) /\ handleCreateUserMock(userID, nanos, pr, po)

\* C39: adding or creating a mock inserts its entry under an ID that no
\* entry of the registry has; it never replaces an existing entry.
C39_InsertUnderFreshID ==
    [][\A id \in UserIDs \cup {CustomID} : InsertsUnder(id) => id \notin DOMAIN mocks]_vars

\* Adding or creating a mock never replaces the entry of a running mock.
RunningNeverReplaced ==
    [][\A id \in UserIDs \cup {CustomID} :
          InsertsUnder(id) => ~(id \in DOMAIN mocks /\ mocks[id].running)]_vars

=============================================================================
